---- MODULE Spec2Model ----
(***************************************************************************)
(* Model of whisper-transcribe: the pipeline orchestrator (Pipeline.Run /  *)
(* Pipeline.Cancel), its collaborators as seen from the orchestrator, and  *)
(* the event channel between Run and the TUI adapter (RunPipeline).        *)
(*                                                                         *)
(* Conventions.                                                            *)
(*  - A ProgressEvent's Progress (a float64 in the code) is kept in        *)
(*    hundredths: 0 is 0.0, 100 is 1.0, lineCount/100.0 is lineCount.      *)
(*  - A string that the code inspects is a sequence of one-character       *)
(*    strings; a string the code only carries is a TLA+ string.            *)
(*  - pc is the position of the goroutine that runs Pipeline.Run, cpc the  *)
(*    position of the goroutine that ranges over the event channel.        *)
(*  - The functions of package formatter are operators; fop, fin and fout *)
(*    hold one call of one of them (function, arguments, result).          *)
(*                                                                         *)
(* Specifications.                                                         *)
(*  - Spec, FairSpec, StalledSpec: a pipeline run on a short recording.    *)
(*  - LongSpec: a pipeline run on a recording of more than 100 lines.      *)
(*  - WrapSpec: one call of wrapText, wrapTextWithPrefix, wrapBlockquote   *)
(*    or forceWrapLine, on every text up to MaxTextLen characters.         *)
(*  - FormatSpec: one call of GenerateMarkdown, or FixCommonIssues         *)
(*    applied once and again, at the width maxLineLength of the code.      *)
(*  - SlugSpec: one call of slugify on a title.                            *)
(*  - TuiSpec: the program of package tui, Model.Update under its event   *)
(*    loop, with the runs RunPipeline starts seen through their messages.  *)
(***************************************************************************)
EXTENDS Integers, Sequences, FiniteSets, TLC

\* ---------------------------------------------------------------- bounds
\* Capacity of the event channel in the model (the code makes it 100).
ChanCap == 2
\* Longest text handed to a wrap function.
MaxTextLen == 5
\* Largest width handed to a wrap function.
MaxWidth == 4
\* Most lines of a document of short lines handed to FixCommonIssues.
MaxShortLines == 7
\* Most lines of a document with long lines handed to FixCommonIssues.
MaxLongDocLines == 3
\* Most segments handed to GenerateMarkdown.
MaxSegments == 2
\* Most segments of a recording of short segments handed to
\* GenerateMarkdown.
MaxProseSegments == 6
\* Most words of a title handed to slugify.
MaxSlugWords == 3
\* Lines without a segment at the head of a long recording's output.
FillerLines == 100
\* Most stdout lines whisper writes for a long recording.
MaxLongLines == 102
\* Most stdout lines yt-dlp writes during one Download call.
MaxDlLines == 2
\* Most stdout lines whisper writes during one Transcribe call.
MaxTrLines == 2

\* ------------------------------------------------------- inputs (bounded)
\* Percentages yt-dlp prints (matches[1] parsed by strconv.ParseFloat).
DownloadPcts == {50}
\* A stdout line of yt-dlp, by what Download does with it.
DownloadLines ==
    [kind : {"pct"}, pct : DownloadPcts]
        \cup {[kind |-> "dest"], [kind |-> "other"]}
\* Text captured by the third group of timestampRe, before TrimSpace.
RawTexts == { <<>>, <<" ", "a", " ", "b">> }
\* The first captured timestamp of a whisper line, split at ":" and ".".
RawTimestamps == { [h |-> "00", m |-> "01", s |-> "05"] }
\* A stdout line of whisper, by what Transcribe does with it.
TranscribeLines ==
    [kind : {"seg"}, ts : RawTimestamps, text : RawTexts]
        \cup {[kind |-> "other"]}
\* The metadata FetchMetadata returns on success.
TheMeta == [Title |-> "title", Channel |-> "channel", Duration |-> "1:05"]
\* p.config.Model
TheModel == "base"

\* --------------------------------------------------------------- strings
IsSpace(c) == c \in {" ", "\t", "\n"}

RECURSIVE TrimLeft(_)
TrimLeft(s) ==
    IF s = <<>> THEN <<>>
    ELSE IF IsSpace(Head(s)) THEN TrimLeft(Tail(s)) ELSE s

RECURSIVE TrimRight(_)
TrimRight(s) ==
    IF s = <<>> THEN <<>>
    ELSE IF IsSpace(s[Len(s)]) THEN TrimRight(SubSeq(s, 1, Len(s) - 1)) ELSE s

\* strings.TrimSpace
TrimSpace(s) == TrimRight(TrimLeft(s))

\* len(strings.Fields(s)): the number of maximal runs of non-space characters.
FieldsCount(s) ==
    Cardinality({i \in 1..Len(s) :
        /\ ~IsSpace(s[i])
        /\ (i = 1 \/ IsSpace(s[i - 1]))})

\* transcriber.formatTimestamp applied to a timestamp timestampRe matched.
formatTimestamp(ts) ==
    IF ts.h = "00" THEN <<"[", ts.m, ":", ts.s, "]">>
    ELSE <<"[", ts.h, ":", ts.m, ":", ts.s, "]">>

\* Variant of CountWords: it counts the segments, not their words.
CountWords_Segments(segs) == Len(segs)

RECURSIVE CountWords(_)
\* transcriber.CountWords
CountWords(segs) ==
    IF segs = <<>> THEN 0
    ELSE FieldsCount(Head(segs).Text) + CountWords(Tail(segs))

\* transcriber.CheckModel: the error value of type ErrModelNotFound when the
\* model asset is absent, nil otherwise. Every other error value of the
\* model is one built by fmt.Errorf (or returned by os/exec).
CheckModel(modelExists) ==
    IF ~modelExists THEN "ErrModelNotFound" ELSE "nil"

\* errors.As(e, &ErrModelNotFound{}): e has the distinguished type.
IsErrModelNotFound(e) == e = CheckModel(FALSE)

\* ---------------------------------------------------------------- events
MetadataEvent(meta) ==
    [type |-> "MetadataEvent", Title |-> meta.Title,
     Channel |-> meta.Channel, Duration |-> meta.Duration]

ProgressEvent(step, progress, message) ==
    [type |-> "ProgressEvent", Step |-> step,
     Progress |-> progress, Message |-> message]

TranscriptEvent(text, timestamp) ==
    [type |-> "TranscriptEvent", Text |-> text, Timestamp |-> timestamp]

CompletedEvent(outputPath, stats) ==
    [type |-> "CompletedEvent", OutputPath |-> outputPath, Stats |-> stats]

ErrorEvent(step, e) ==
    [type |-> "ErrorEvent", Step |-> step, Err |-> e]

Stats(duration, wordCount, model) ==
    [Duration |-> duration, WordCount |-> wordCount, Model |-> model]

\* The UI message the adapter's type switch builds for an event.
ToMsg(e) ==
    CASE e.type = "MetadataEvent" ->
            [type |-> "MetadataFetchedMsg", Title |-> e.Title,
             Channel |-> e.Channel, Duration |-> e.Duration]
      [] e.type = "ProgressEvent" ->
            [type |-> "PipelineProgressMsg", Step |-> e.Step,
             Progress |-> e.Progress, Message |-> e.Message]
      [] e.type = "TranscriptEvent" ->
            [type |-> "TranscriptChunkMsg", Text |-> e.Text,
             Timestamp |-> e.Timestamp]
      [] e.type = "CompletedEvent" ->
            [type |-> "PipelineCompletedMsg", OutputPath |-> e.OutputPath,
             Stats |-> e.Stats]
      [] e.type = "ErrorEvent" ->
            [type |-> "PipelineErrorMsg", Step |-> e.Step, Err |-> e.Err]

\* ----------------------------------------------------------------- state
VARIABLES
    pc,         \* position of the goroutine running Pipeline.Run
    ctxDone,    \* p.ctx has been cancelled
    proc,       \* the external process of the collaborator call in flight
    linesRead,  \* stdout lines the current call's scanner has returned
    lineCount,  \* Transcribe's lineCount
    segments,   \* Transcribe's segments
    progress,   \* the float Download hands to onProgress, in hundredths
    chunk,      \* the Chunk Transcribe hands to onChunk
    audioPath,  \* Download's audioPath is non-empty
    err,        \* Run's err after the last collaborator call ("nil" if none)
    waitErr,    \* Transcribe's cmd.Wait returned an error
    lintErr,    \* what LintMarkdown returned to Run ("unset" before the call)
    fileWritten,\* the output file of the run is on disk
    events,     \* the buffered channel: events sent and not yet received
    closed,     \* close(events) has run
    cpc,        \* position of the goroutine ranging over events
    cur,        \* the adapter's loop variable event
    msgs,       \* the messages handed to program.Send, in order
    sent,       \* history: every event Run has sent, in order
    received,   \* history: every event the adapter has received, in order
    calls,      \* history: the collaborators Run has invoked, in order
    failed,     \* history: the stage whose collaborator returned an error
    cancelAt,   \* history: the stage whose running call Cancel interrupted
    fop,        \* the formatter function under call ("none" in a pipeline run)
    fin,        \* the arguments of that call
    fout,       \* its result (NoResult until it has returned)
    tuiModel,   \* the tea.Model of the program: tui.Model and its sub-models
    tuiCmds,    \* the tea.Cmds issued by Update whose message is still due
    tuiHist     \* history: what Update has issued and handled

vars == <<pc, ctxDone, proc, linesRead, lineCount, segments, progress, chunk,
          audioPath, err, waitErr, lintErr, fileWritten, events, closed, cpc,
          cur, msgs, sent, received, calls, failed, cancelAt, fop, fin, fout,
          tuiModel, tuiCmds, tuiHist>>

procVars == <<proc, linesRead>>
dataVars == <<lineCount, segments, progress, chunk, audioPath, waitErr,
              lintErr, fileWritten>>
chanVars == <<events, sent>>
consVars == <<closed, cpc, cur, msgs, received>>
histVars == <<calls, failed, cancelAt>>
fmtVars == <<fop, fin, fout>>
tuiVars == <<tuiModel, tuiCmds, tuiHist>>
pipelineVars == <<pc, ctxDone, procVars, dataVars, err, chanVars, consVars,
                  histVars>>

NoEvent == [type |-> "none"]
NoChunk == [Text |-> <<>>, Timestamp |-> <<>>, Progress |-> 0]
NoResult == [returned |-> FALSE]

\* ------------------------------------------------- tui: the program's model
\* The Key of each PipelineStep of the progress screen, in display order.
StepKeys == <<"metadata", "download", "transcribe", "format", "validate">>

\* screens.NewInputModel: the form, by what submission depends on. urlValid
\* is what the validation of the source field's value returns.
NewInputModel == [focusIndex |-> 0, urlValid |-> FALSE, submitted |-> FALSE]

\* screens.NewDownloadModel.
NewDownloadModel ==
    [state |-> "DownloadStatePrompt", focusedButton |-> 0,
     confirmed |-> FALSE, cancelled |-> FALSE]

\* screens.NewProgressModel: the Status of every step, and err # nil.
NewProgressModel ==
    [steps |-> [i \in 1..Len(StepKeys) |-> "StepPending"], err |-> FALSE]

\* screens.NewPreviewModel.
NewPreviewModel == [focusedButton |-> 0, hasResult |-> FALSE]

\* tui.NewModel. pendingConfig is TRUE when the pointer is not nil.
NewModel ==
    [screen |-> "InputScreen",
     pipelineActive |-> FALSE,
     pendingConfig |-> FALSE,
     input |-> NewInputModel,
     download |-> NewDownloadModel,
     progress |-> NewProgressModel,
     preview |-> NewPreviewModel]

\* No command of the program is running.
NoCmds == [check |-> 0, started |-> 0, download |-> 0]

\* Nothing has been issued or handled. running: the goroutines of a run
\* exist; inFlight: the runs issued whose terminal message has not been
\* handled; submissions: the forms submitted; sinceCancel: the download
\* screen was cancelled and nothing has been submitted since; quit: Update
\* has returned tea.Quit.
NoHist ==
    [running |-> FALSE, inFlight |-> 0, submissions |-> 0,
     sinceCancel |-> FALSE, quit |-> FALSE]

\* The program before its first message.
TuiInit ==
    /\ tuiModel = NewModel
    /\ tuiCmds = NoCmds
    /\ tuiHist = NoHist

\* The state of the two goroutines of RunPipeline when they start.
PipelineInit ==
    /\ pc = "m_p0"
    /\ ctxDone = FALSE
    /\ proc = "none"
    /\ linesRead = 0
    /\ lineCount = 0
    /\ segments = <<>>
    /\ progress = 0
    /\ chunk = NoChunk
    /\ audioPath = FALSE
    /\ err = "nil"
    /\ waitErr = FALSE
    /\ lintErr = "unset"
    /\ fileWritten = FALSE
    /\ events = <<>>
    /\ closed = FALSE
    /\ cpc = "recv"
    /\ cur = NoEvent
    /\ msgs = <<>>
    /\ sent = <<>>
    /\ received = <<>>
    /\ calls = <<>>
    /\ failed = "none"
    /\ cancelAt = "none"

\* A pipeline run: no formatter function is called on its own.
Init ==
    /\ PipelineInit
    /\ TuiInit
    /\ fop = "none"
    /\ fin = <<>>
    /\ fout = NoResult

\* --------------------------------------------------------------- channel
\* Variant of Send: a non-blocking send (select with a default case) that
\* discards the event when the buffer is full.
Send_DropWhenFull(e) ==
    /\ events' = IF Len(events) < ChanCap THEN Append(events, e) ELSE events
    /\ sent' = Append(sent, e)

\* p.events <- e on the buffered channel: blocks while the buffer is full.
Send(e) ==
    /\ Len(events) < ChanCap
    /\ events' = Append(events, e)
    /\ sent' = Append(sent, e)

\* A send statement of Run at position from, continuing at position to.
Emit(from, e, to) ==
    /\ pc = from
    /\ Send(e)
    /\ pc' = to
    /\ UNCHANGED <<ctxDone, procVars, dataVars, err, consVars, histVars>>
    /\ UNCHANGED <<fmtVars, tuiVars>>

\* A send statement of Run followed by return: the deferred p.cancel() runs.
EmitAndReturn(from, e) ==
    /\ pc = from
    /\ Send(e)
    /\ pc' = "returned"
    /\ ctxDone' = TRUE
    /\ UNCHANGED <<procVars, dataVars, err, consVars, histVars>>
    /\ UNCHANGED <<fmtVars, tuiVars>>

\* A collaborator call returns e != nil to Run, which goes to position to.
Fail(stage, e, to) ==
    /\ err' = e
    /\ failed' = stage
    /\ pc' = to

\* exec.Cmd.Start of a command made by exec.CommandContext(p.ctx, ...):
\* it refuses to start once the context is done, and may fail otherwise.
StartOutcomes == IF ctxDone THEN {FALSE} ELSE BOOLEAN

\* The stage whose collaborator call is in flight at position q.
StageAt(q) ==
    CASE q \in {"m_wait"} -> "metadata"
      [] q \in {"d_scan", "d_cb"} -> "download"
      [] q \in {"t_scan", "t_cb1", "t_cb2"} -> "transcribe"
      [] q \in {"v_wait"} -> "validate"
      [] OTHER -> "none"

\* The collaborator calls that were handed p.ctx.
TakesCtx(stage) == stage \in {"metadata", "download", "transcribe"}

\* The external process ends by itself, with or without a failure status.
ProcExit ==
    /\ proc = "running"
    /\ proc' \in {"exited_ok", "exited_err"}
    /\ UNCHANGED <<pc, ctxDone, linesRead, dataVars, err, chanVars, consVars,
                   histVars>>
    /\ UNCHANGED <<fmtVars, tuiVars>>

\* Pipeline.Cancel: cancels p.ctx; a running process started with
\* exec.CommandContext(p.ctx, ...) is killed.
Cancel ==
    /\ ~ctxDone
    /\ pc \notin {"returned", "closed"}
    /\ ctxDone' = TRUE
    /\ proc' = IF proc = "running" /\ TakesCtx(StageAt(pc))
               THEN "killed" ELSE proc
    /\ cancelAt' = IF proc = "running" THEN StageAt(pc) ELSE cancelAt
    /\ UNCHANGED <<pc, linesRead, dataVars, err, chanVars, consVars, calls,
                   failed>>
    /\ UNCHANGED <<fmtVars, tuiVars>>

\* ------------------------------------------------------ step 1: metadata
SendMetadataStart ==
    Emit("m_p0", ProgressEvent("metadata", 0, "Fetching video info..."),
         "m_call")

\* downloader.FetchMetadata up to cmd.Output starting yt-dlp.
FetchMetadataCall ==
    /\ pc = "m_call"
    /\ calls' = Append(calls, "metadata")
    /\ \E started \in StartOutcomes :
         IF started
         THEN /\ proc' = "running"
              /\ pc' = "m_wait"
              /\ UNCHANGED <<err, failed>>
         ELSE /\ Fail("metadata", "yt-dlp metadata failed", "m_err")
              /\ UNCHANGED proc
    /\ UNCHANGED <<ctxDone, linesRead, dataVars, chanVars, consVars, cancelAt>>
    /\ UNCHANGED <<fmtVars, tuiVars>>

\* downloader.FetchMetadata from the end of cmd.Output to its return.
FetchMetadataReturn ==
    /\ pc = "m_wait"
    /\ proc # "running"
    /\ proc' = "none"
    /\ IF proc = "exited_ok"
       THEN \E parsed \in BOOLEAN :
              IF parsed
              THEN pc' = "m_ev" /\ err' = "nil" /\ UNCHANGED failed
              ELSE Fail("metadata", "parse metadata", "m_err")
       ELSE Fail("metadata", "yt-dlp metadata failed", "m_err")
    /\ UNCHANGED <<ctxDone, linesRead, dataVars, chanVars, consVars, calls,
                   cancelAt>>
    /\ UNCHANGED <<fmtVars, tuiVars>>

SendMetadataError == EmitAndReturn("m_err", ErrorEvent("metadata", err))

SendMetadataEvent == Emit("m_ev", MetadataEvent(TheMeta), "m_p1")

\* Variant of SendMetadataDone: the "Done" event of the metadata step is
\* left out and Run goes on with the download step.
SendMetadataDone_Omitted ==
    Emit("m_p1", ProgressEvent("download", 0, "Starting download..."), "d_call")

SendMetadataDone == Emit("m_p1", ProgressEvent("metadata", 100, "Done"), "d_p0")

\* ------------------------------------------------------ step 2: download
SendDownloadStart ==
    Emit("d_p0", ProgressEvent("download", 0, "Starting download..."), "d_call")

\* downloader.Download up to cmd.Start.
DownloadCall ==
    /\ pc = "d_call"
    /\ calls' = Append(calls, "download")
    /\ linesRead' = 0
    /\ audioPath' = FALSE
    /\ \E started \in StartOutcomes :
         IF started
         THEN /\ proc' = "running"
              /\ pc' = "d_scan"
              /\ UNCHANGED <<err, failed>>
         ELSE /\ \E e \in {"create temp dir", "start yt-dlp"} :
                    Fail("download", e, "d_err")
              /\ UNCHANGED proc
    /\ UNCHANGED <<ctxDone, lineCount, segments, progress, chunk, waitErr,
                   lintErr, fileWritten, chanVars, consVars, cancelAt>>
    /\ UNCHANGED <<fmtVars, tuiVars>>

\* One iteration of Download's scanner loop: scanner.Scan returns a line the
\* process wrote (a killed or finished process may have left lines unread).
DownloadScan ==
    /\ pc = "d_scan"
    /\ linesRead < MaxDlLines
    /\ linesRead' = linesRead + 1
    /\ \E line \in DownloadLines :
         CASE line.kind = "pct" ->
                /\ progress' = line.pct
                /\ pc' = "d_cb"
                /\ UNCHANGED audioPath
           [] line.kind = "dest" ->
                /\ audioPath' = TRUE
                /\ UNCHANGED <<pc, progress>>
           [] OTHER -> UNCHANGED <<pc, progress, audioPath>>
    /\ UNCHANGED <<ctxDone, proc, lineCount, segments, chunk, waitErr,
                   lintErr, fileWritten,
                   err, chanVars, consVars, histVars>>
    /\ UNCHANGED <<fmtVars, tuiVars>>

\* The onProgress callback Run passes to Download.
SendDownloadProgress ==
    Emit("d_cb", ProgressEvent("download", progress, "Downloading..."), "d_scan")

\* Download from the end of the scanner loop (EOF) to its return.
DownloadReturn ==
    /\ pc = "d_scan"
    /\ proc # "running"
    /\ proc' = "none"
    /\ IF proc # "exited_ok"
       THEN Fail("download", "yt-dlp failed", "d_err")
       ELSE IF audioPath
       THEN pc' = "d_p1" /\ err' = "nil" /\ UNCHANGED failed
       ELSE \E globbed \in BOOLEAN :
              IF globbed
              THEN pc' = "d_p1" /\ err' = "nil" /\ UNCHANGED failed
              ELSE Fail("download", "no audio file produced", "d_err")
    /\ UNCHANGED <<ctxDone, linesRead, dataVars, chanVars, consVars, calls,
                   cancelAt>>
    /\ UNCHANGED <<fmtVars, tuiVars>>

\* Variant of SendDownloadError: the event names the previous step.
SendDownloadError_WrongStep ==
    EmitAndReturn("d_err", ErrorEvent("metadata", err))

SendDownloadError == EmitAndReturn("d_err", ErrorEvent("download", err))

SendDownloadDone == Emit("d_p1", ProgressEvent("download", 100, "Done"), "t_p0")

\* ---------------------------------------------------- step 3: transcribe
SendTranscribeStart ==
    Emit("t_p0", ProgressEvent("transcribe", 0, "Starting transcription..."),
         "t_call")

\* transcriber.Transcribe up to cmd.Start: the binary and the model are looked
\* up, the pipes are made and the process is started.
TranscribeCall ==
    /\ pc = "t_call"
    /\ calls' = Append(calls, "transcribe")
    /\ linesRead' = 0
    /\ lineCount' = 0
    /\ segments' = <<>>
    /\ \/ /\ \E e \in {"whisper binary not found", "model not found"} :
                Fail("transcribe", e, "t_err")
          /\ UNCHANGED proc
       \/ \E started \in StartOutcomes :
            IF started
            THEN /\ proc' = "running"
                 /\ pc' = "t_scan"
                 /\ UNCHANGED <<err, failed>>
            ELSE /\ Fail("transcribe", "start whisper", "t_err")
                 /\ UNCHANGED proc
    /\ UNCHANGED <<ctxDone, progress, chunk, audioPath, waitErr, lintErr,
                   fileWritten, chanVars, consVars, cancelAt>>
    /\ UNCHANGED <<fmtVars, tuiVars>>

\* The Segment Transcribe builds from a line that timestampRe matched.
SegmentOf(line) ==
    [Text |-> TrimSpace(line.text), Timestamp |-> formatTimestamp(line.ts)]

\* One iteration of Transcribe's scanner loop, for a whisper process that
\* prints at most maxLines lines, the next of them one of lines.
ScanLine(maxLines, lines) ==
    /\ pc = "t_scan"
    /\ linesRead < maxLines
    /\ linesRead' = linesRead + 1
    /\ lineCount' = lineCount + 1
    /\ \E line \in lines :
         IF line.kind = "seg" /\ SegmentOf(line).Text # <<>>
         THEN /\ segments' = Append(segments, SegmentOf(line))
              /\ chunk' = [Text |-> SegmentOf(line).Text,
                           Timestamp |-> SegmentOf(line).Timestamp,
                           Progress |-> lineCount']
              /\ pc' = "t_cb1"
         ELSE UNCHANGED <<segments, chunk, pc>>
    /\ UNCHANGED <<ctxDone, proc, progress, audioPath, waitErr, lintErr,
                   fileWritten, err, chanVars, consVars, histVars>>
    /\ UNCHANGED <<fmtVars, tuiVars>>

\* The scanner loop on the output of a short recording.
TranscribeScan == ScanLine(MaxTrLines, TranscribeLines)

\* The scanner loop on the output of a long recording: whisper first prints
\* FillerLines lines that yield no segment (segment lines with blank text),
\* then up to MaxLongLines lines in all.
LongTranscribeScan ==
    ScanLine(MaxLongLines,
             IF linesRead < FillerLines
             THEN {l \in TranscribeLines : l.kind = "seg" /\ l.text = <<>>}
             ELSE TranscribeLines)

\* Variant of SendTranscriptEvent: the callback ends after its first send.
SendTranscriptEvent_Only ==
    Emit("t_cb1", TranscriptEvent(chunk.Text, chunk.Timestamp), "t_scan")

\* Variant of SendTranscriptEvent: the event goes out without the chunk's
\* timestamp.
SendTranscriptEvent_NoTimestamp ==
    Emit("t_cb1", TranscriptEvent(chunk.Text, <<>>), "t_cb2")

\* The onChunk callback Run passes to Transcribe: its first send.
SendTranscriptEvent ==
    Emit("t_cb1", TranscriptEvent(chunk.Text, chunk.Timestamp), "t_cb2")

\* The onChunk callback Run passes to Transcribe: its second send.
SendTranscribeProgress ==
    Emit("t_cb2", ProgressEvent("transcribe", chunk.Progress, "Transcribing..."),
         "t_scan")

\* Variant of WaitErrorIsFatal: every error of cmd.Wait is returned.
WaitErrorIsFatal_Always(segs) == TRUE

\* Whether Transcribe returns an error after cmd.Wait returned one.
WaitErrorIsFatal(segs) == Len(segs) = 0

\* Transcribe from the end of the scanner loop (EOF) to its return.
TranscribeReturn ==
    /\ pc = "t_scan"
    /\ proc # "running"
    /\ proc' = "none"
    /\ waitErr' = (proc # "exited_ok")
    /\ IF proc # "exited_ok" /\ WaitErrorIsFatal(segments)
       THEN Fail("transcribe", "whisper failed", "t_err")
       ELSE pc' = "t_p1" /\ err' = "nil" /\ UNCHANGED failed
    /\ UNCHANGED <<ctxDone, linesRead, lineCount, segments, progress, chunk,
                   audioPath, lintErr, fileWritten, chanVars, consVars, calls,
                   cancelAt>>
    /\ UNCHANGED <<fmtVars, tuiVars>>

SendTranscribeError == EmitAndReturn("t_err", ErrorEvent("transcribe", err))

SendTranscribeDone ==
    Emit("t_p1", ProgressEvent("transcribe", 100, "Done"), "f_p0")

\* -------------------------------------------------------- step 4: format
SendFormatStart ==
    Emit("f_p0", ProgressEvent("format", 0, "Generating markdown..."), "f_call")

\* Variant of WriteFileOutcomes: the file of a successful write is not
\* kept.
WriteFileOutcomes_Lost(e) == IF e = "write file" THEN BOOLEAN ELSE {FALSE}

\* Whether the output file is on disk when GenerateMarkdown returns e.
\* os.MkdirAll fails before the file is created; os.WriteFile creates the
\* file and then writes to it, so a failed call may or may not leave a file
\* behind.
WriteFileOutcomes(e) ==
    CASE e = "nil" -> {TRUE}
      [] e = "write file" -> BOOLEAN
      [] OTHER -> {FALSE}

\* formatter.GenerateMarkdown as Run sees it: the file is written or an error
\* comes back (output directory, template, write).
GenerateMarkdownCall ==
    /\ pc = "f_call"
    /\ calls' = Append(calls, "format")
    /\ \E e \in {"nil", "create output dir", "write file"} :
         /\ fileWritten' \in WriteFileOutcomes(e)
         /\ IF e = "nil"
            THEN /\ pc' = "f_p1"
                 /\ err' = "nil"
                 /\ UNCHANGED failed
            ELSE Fail("format", e, "f_err")
    /\ UNCHANGED <<ctxDone, procVars, lineCount, segments, progress, chunk,
                   audioPath, waitErr, lintErr, chanVars, consVars, cancelAt>>
    /\ UNCHANGED <<fmtVars, tuiVars>>

\* Variant of SendFormatError: the return after the send is missing.
SendFormatError_NoReturn ==
    Emit("f_err", ErrorEvent("format", err), "f_p1")

SendFormatError == EmitAndReturn("f_err", ErrorEvent("format", err))

SendFormatDone == Emit("f_p1", ProgressEvent("format", 100, "Done"), "v_p0")

\* ------------------------------------------------------ step 5: validate
SendValidateStart ==
    Emit("v_p0", ProgressEvent("validate", 0, "Checking markdown..."), "v_call")

\* formatter.LintMarkdown up to starting markdownlint with exec.Command (no
\* context): the start may fail, e.g. when markdownlint is not installed.
LintMarkdownCall ==
    /\ pc = "v_call"
    /\ calls' = Append(calls, "validate")
    /\ \E started \in BOOLEAN :
         IF started
         THEN proc' = "running" /\ pc' = "v_wait" /\ UNCHANGED lintErr
         ELSE proc' = "none" /\ pc' = "v_warn"
                /\ lintErr' = "markdownlint error"
    /\ UNCHANGED <<ctxDone, linesRead, lineCount, segments, progress, chunk,
                   audioPath, waitErr, fileWritten, err, chanVars, consVars,
                   failed, cancelAt>>
    /\ UNCHANGED <<fmtVars, tuiVars>>

\* formatter.LintMarkdown from the end of cmd.CombinedOutput to its return;
\* the error is local to Run's if statement.
LintMarkdownReturn ==
    /\ pc = "v_wait"
    /\ proc # "running"
    /\ proc' = "none"
    /\ lintErr' = IF proc = "exited_ok" THEN "nil" ELSE "markdown lint failed"
    /\ pc' = IF lintErr' = "nil" THEN "v_pass" ELSE "v_warn"
    /\ UNCHANGED <<ctxDone, linesRead, lineCount, segments, progress, chunk,
                   audioPath, waitErr, fileWritten, err, chanVars, consVars,
                   histVars>>
    /\ UNCHANGED <<fmtVars, tuiVars>>

\* Variant of SendValidateWarnings: the lint error is treated like the
\* errors of the other steps.
SendValidateWarnings_Fatal ==
    EmitAndReturn("v_warn", ErrorEvent("validate", lintErr))

SendValidateWarnings ==
    Emit("v_warn", ProgressEvent("validate", 100, "Warnings found"), "c_ev")

SendValidatePassed ==
    Emit("v_pass", ProgressEvent("validate", 100, "Passed"), "c_ev")

\* ---------------------------------------------------------------- complete
SendCompleted ==
    EmitAndReturn("c_ev",
        CompletedEvent("out.md",
            Stats(TheMeta.Duration, CountWords(segments), TheModel)))

\* ------------------------------------------------ RunPipeline goroutines
\* Variant of CloseEvents: close(events) does not wait for Run (as after
\* "go p.Run()"); a later send of Run finds the channel closed.
CloseEvents_Early ==
    /\ ~closed
    /\ closed' = TRUE
    /\ pc' = IF pc = "returned" THEN "closed" ELSE pc
    /\ UNCHANGED <<ctxDone, procVars, dataVars, err, chanVars, cpc, cur, msgs,
                   received, histVars>>
    /\ UNCHANGED <<fmtVars, tuiVars>>

\* The first goroutine of RunPipeline after p.Run() has returned.
CloseEvents ==
    /\ pc = "returned"
    /\ closed' = TRUE
    /\ pc' = "closed"
    /\ UNCHANGED <<ctxDone, procVars, dataVars, err, chanVars, cpc, cur, msgs,
                   received, histVars>>
    /\ UNCHANGED <<fmtVars, tuiVars>>

\* The receive of "for event := range events".
Receive ==
    /\ cpc = "recv"
    /\ events # <<>>
    /\ cur' = Head(events)
    /\ events' = Tail(events)
    /\ received' = Append(received, Head(events))
    /\ cpc' = "send"
    /\ UNCHANGED <<pc, ctxDone, procVars, dataVars, err, sent, closed, msgs,
                   histVars>>
    /\ UNCHANGED <<fmtVars, tuiVars>>

\* The body of the range loop: the type switch and its program.Send.
Forward ==
    /\ cpc = "send"
    /\ msgs' = Append(msgs, ToMsg(cur))
    /\ cpc' = "recv"
    /\ UNCHANGED <<pc, ctxDone, procVars, dataVars, err, chanVars, closed, cur,
                   received, histVars>>
    /\ UNCHANGED <<fmtVars, tuiVars>>

\* Variant of ConsumerExit: the loop polls and leaves as soon as it finds
\* the channel empty, closed or not.
ConsumerExit_WhenEmpty ==
    /\ cpc = "recv"
    /\ events = <<>>
    /\ cpc' = "done"
    /\ UNCHANGED <<pc, ctxDone, procVars, dataVars, err, chanVars, closed, cur,
                   msgs, received, histVars>>
    /\ UNCHANGED <<fmtVars, tuiVars>>

\* The range loop ends: the channel is closed and drained.
ConsumerExit ==
    /\ cpc = "recv"
    /\ events = <<>>
    /\ closed
    /\ cpc' = "done"
    /\ UNCHANGED <<pc, ctxDone, procVars, dataVars, err, chanVars, closed, cur,
                   msgs, received, histVars>>
    /\ UNCHANGED <<fmtVars, tuiVars>>

\* ------------------------------------------------------- specifications
\* The steps of Run other than the scanner loop of Transcribe.
RunStep ==
    \/ SendMetadataStart \/ FetchMetadataCall \/ FetchMetadataReturn
    \/ SendMetadataError \/ SendMetadataEvent \/ SendMetadataDone
    \/ SendDownloadStart \/ DownloadCall \/ DownloadScan
    \/ SendDownloadProgress \/ DownloadReturn \/ SendDownloadError
    \/ SendDownloadDone
    \/ SendTranscribeStart \/ TranscribeCall
    \/ SendTranscriptEvent \/ SendTranscribeProgress \/ TranscribeReturn
    \/ SendTranscribeError \/ SendTranscribeDone
    \/ SendFormatStart \/ GenerateMarkdownCall \/ SendFormatError
    \/ SendFormatDone
    \/ SendValidateStart \/ LintMarkdownCall \/ LintMarkdownReturn
    \/ SendValidateWarnings \/ SendValidatePassed
    \/ SendCompleted
    \/ CloseEvents

ProducerStep == RunStep \/ TranscribeScan

ConsumerStep == Receive \/ Forward \/ ConsumerExit

Next == ProducerStep \/ ConsumerStep \/ ProcExit \/ Cancel

Spec == Init /\ [][Next]_vars

\* A pipeline run on a long recording.
LongNext ==
    RunStep \/ LongTranscribeScan \/ ConsumerStep \/ ProcExit \/ Cancel

LongSpec == Init /\ [][LongNext]_vars

\* The Go scheduler runs every runnable goroutine, every external process
\* ends, and the UI program keeps taking the messages handed to it.
FairSpec ==
    /\ Spec
    /\ WF_vars(ProducerStep)
    /\ WF_vars(ConsumerStep)
    /\ WF_vars(ProcExit)

\* As FairSpec, but the consumer of the events may stop receiving for good
\* (nothing obliges the program behind program.Send, or another consumer of
\* the channel, to keep taking events).
StalledSpec ==
    /\ Spec
    /\ WF_vars(ProducerStep)
    /\ WF_vars(ProcExit)

\* ------------------------------------------- formatter: package strings
\* The constant maxLineLength of package formatter.
maxLineLength == 80

\* strings.HasPrefix
HasPrefix(s, p) == Len(s) >= Len(p) /\ SubSeq(s, 1, Len(p)) = p

RECURSIVE TrimRightCut(_, _)
\* strings.TrimRight(s, cutset)
TrimRightCut(s, cutset) ==
    IF s = <<>> THEN <<>>
    ELSE IF s[Len(s)] \in cutset
         THEN TrimRightCut(SubSeq(s, 1, Len(s) - 1), cutset)
         ELSE s

\* The elements of a finite set of numbers in increasing order.
Sorted(S) ==
    [k \in 1..Cardinality(S) |->
        CHOOSE i \in S : Cardinality({j \in S : j <= i}) = k]

\* strings.Fields: the maximal runs of non-space characters, in order.
Fields(s) ==
    LET starts == Sorted({i \in 1..Len(s) :
                    ~IsSpace(s[i]) /\ (i = 1 \/ IsSpace(s[i - 1]))})
        ends == Sorted({i \in 1..Len(s) :
                    ~IsSpace(s[i]) /\ (i = Len(s) \/ IsSpace(s[i + 1]))})
    IN  [k \in 1..Len(starts) |-> SubSeq(s, starts[k], ends[k])]

\* strings.Split(s, sep) for a separator of one character: the pieces
\* between the separators, one more than there are separators.
Split(s, sep) ==
    LET at == Sorted({i \in 1..Len(s) : s[i] = sep})
        from(k) == IF k = 1 THEN 1 ELSE at[k - 1] + 1
        to(k) == IF k = Len(at) + 1 THEN Len(s) ELSE at[k] - 1
    IN  [k \in 1..(Len(at) + 1) |-> SubSeq(s, from(k), to(k))]

RECURSIVE Join(_, _)
\* strings.Join(elems, sep)
Join(elems, sep) ==
    IF elems = <<>> THEN <<>>
    ELSE IF Len(elems) = 1 THEN elems[1]
         ELSE elems[1] \o sep \o Join(Tail(elems), sep)

\* The positions at which substr occurs in s.
Occurrences(s, substr) ==
    {i \in 1..(Len(s) - Len(substr) + 1) :
        SubSeq(s, i, i + Len(substr) - 1) = substr}

\* strings.Contains(s, substr)
Contains(s, substr) == Occurrences(s, substr) # {}

RECURSIVE ReplaceAll(_, _, _)
\* strings.ReplaceAll(s, old, new) for a non-empty old: the non-overlapping
\* occurrences of old, found from the left.
ReplaceAll(s, old, new) ==
    LET occ == Occurrences(s, old)
        first == CHOOSE i \in occ : \A j \in occ : i <= j
    IN  IF occ = {} THEN s
        ELSE SubSeq(s, 1, first - 1) \o new
                 \o ReplaceAll(SubSeq(s, first + Len(old), Len(s)), old, new)

\* ------------------------------------------------ formatter: wrapping
NL == <<"\n">>
SP == <<" ">>
QuotePrefix == <<">", " ">>

\* Variant of Overflows: the joining space is not counted.
Overflows_NoSpace(lineLen, wordLen, maxLen) == lineLen + wordLen > maxLen

\* The test of the word loops: a word of wordLen characters, joined by a
\* space to a line of lineLen characters, exceeds maxLen.
Overflows(lineLen, wordLen, maxLen) == lineLen + 1 + wordLen > maxLen

RECURSIVE wrapTextLoop(_, _, _, _, _)
\* The word loop of wrapText from the i-th word on: result is the builder,
\* lineLen the length of its last line.
wrapTextLoop(words, i, result, lineLen, maxLen) ==
    IF i > Len(words) THEN result
    ELSE LET word == words[i]
             wordLen == Len(word)
         IN  IF i = 1
             THEN wrapTextLoop(words, i + 1, result \o word, wordLen, maxLen)
             ELSE IF Overflows(lineLen, wordLen, maxLen)
                  THEN wrapTextLoop(words, i + 1, result \o NL \o word,
                                    wordLen, maxLen)
                  ELSE wrapTextLoop(words, i + 1, result \o SP \o word,
                                    lineLen + 1 + wordLen, maxLen)

\* Variant of wrapText: a text that fits is reflowed like a longer one.
wrapText_AlwaysReflow(text, maxLen) ==
    wrapTextLoop(Fields(text), 1, <<>>, 0, maxLen)

\* formatter.wrapText
wrapText(text, maxLen) ==
    IF Len(text) <= maxLen THEN text
    ELSE wrapTextLoop(Fields(text), 1, <<>>, 0, maxLen)

RECURSIVE wrapTextWithPrefixLoop(_, _, _, _, _)
\* The word loop of wrapTextWithPrefix from the i-th word on.
wrapTextWithPrefixLoop(words, i, result, lineLen, maxLen) ==
    IF i > Len(words) THEN result
    ELSE LET word == words[i]
             wordLen == Len(word)
         IN  IF i = 1
             THEN wrapTextWithPrefixLoop(words, i + 1, result \o word,
                                         lineLen + wordLen, maxLen)
             ELSE IF Overflows(lineLen, wordLen, maxLen)
                  THEN wrapTextWithPrefixLoop(words, i + 1,
                                              result \o NL \o word,
                                              wordLen, maxLen)
                  ELSE wrapTextWithPrefixLoop(words, i + 1,
                                              result \o SP \o word,
                                              lineLen + 1 + wordLen, maxLen)

\* Variant of wrapTextWithPrefix: the prefix is not written.
wrapTextWithPrefix_NoPrefix(prefix, text, maxLen) ==
    IF Len(prefix) + Len(text) <= maxLen THEN text
    ELSE wrapTextWithPrefixLoop(Fields(text), 1, <<>>, Len(prefix), maxLen)

\* formatter.wrapTextWithPrefix
wrapTextWithPrefix(prefix, text, maxLen) ==
    IF Len(prefix) + Len(text) <= maxLen THEN prefix \o text
    ELSE wrapTextWithPrefixLoop(Fields(text), 1, prefix, Len(prefix), maxLen)

RECURSIVE wrapBlockquoteLoop(_, _, _, _, _)
\* The word loop of wrapBlockquote from the i-th word on.
wrapBlockquoteLoop(words, i, result, lineLen, effectiveLen) ==
    IF i > Len(words) THEN result
    ELSE LET word == words[i]
             wordLen == Len(word)
         IN  IF i = 1
             THEN wrapBlockquoteLoop(words, i + 1, result \o word, wordLen,
                                     effectiveLen)
             ELSE IF Overflows(lineLen, wordLen, effectiveLen)
                  THEN wrapBlockquoteLoop(words, i + 1,
                                          result \o NL \o QuotePrefix \o word,
                                          wordLen, effectiveLen)
                  ELSE wrapBlockquoteLoop(words, i + 1, result \o SP \o word,
                                          lineLen + 1 + wordLen, effectiveLen)

\* Variant of wrapBlockquote: the width of "> " is not subtracted.
wrapBlockquote_FullWidth(text, maxLen) ==
    IF Len(text) <= maxLen THEN QuotePrefix \o text
    ELSE wrapBlockquoteLoop(Fields(text), 1, QuotePrefix, 0, maxLen)

\* formatter.wrapBlockquote
wrapBlockquote(text, maxLen) ==
    LET effectiveLen == maxLen - 2
    IN  IF Len(text) <= effectiveLen THEN QuotePrefix \o text
        ELSE wrapBlockquoteLoop(Fields(text), 1, QuotePrefix, 0, effectiveLen)

RECURSIVE breakWord(_, _, _, _)
\* The inner loop of forceWrapLine that breaks a word longer than maxLen:
\* st.currentLine holds the prefix when it starts and when it ends.
breakWord(word, st, prefix, maxLen) ==
    IF Len(word) > maxLen
    THEN breakWord(SubSeq(word, maxLen + 1, Len(word)),
                   [st EXCEPT !.result =
                        Append(@, st.currentLine \o SubSeq(word, 1, maxLen)),
                              !.currentLine = prefix],
                   prefix, maxLen)
    ELSE IF Len(word) > 0
         THEN [st EXCEPT !.currentLine = @ \o word, !.lineLen = Len(word)]
         ELSE st

\* Variant of flushLine: the line is reset without being appended to the
\* result.
flushLine_Discards(st, prefix) ==
    IF st.lineLen > 0
    THEN [result |-> st.result, currentLine |-> prefix, lineLen |-> 0]
    ELSE st

\* The flush of forceWrapLine before a long word.
flushLine(st, prefix) ==
    IF st.lineLen > 0
    THEN [result |-> Append(st.result, st.currentLine),
          currentLine |-> prefix, lineLen |-> 0]
    ELSE st

\* The test of forceWrapLine for a word it has to break.
IsLongWord(wordLen, maxLen) == wordLen > maxLen

RECURSIVE forceWrapLoop(_, _, _, _, _)
\* The word loop of forceWrapLine from the i-th word on.
forceWrapLoop(words, i, st, prefix, maxLen) ==
    IF i > Len(words) THEN st
    ELSE LET word == words[i]
             wordLen == Len(word)
         IN  IF IsLongWord(wordLen, maxLen)
             THEN forceWrapLoop(words, i + 1,
                                breakWord(word, flushLine(st, prefix),
                                          prefix, maxLen),
                                prefix, maxLen)
             ELSE IF i = 1
                  THEN forceWrapLoop(words, i + 1,
                           [st EXCEPT !.currentLine = @ \o word,
                                      !.lineLen = wordLen],
                           prefix, maxLen)
                  ELSE IF Overflows(st.lineLen, wordLen, maxLen)
                       THEN forceWrapLoop(words, i + 1,
                                [result |-> Append(st.result, st.currentLine),
                                 currentLine |-> prefix \o word,
                                 lineLen |-> wordLen],
                                prefix, maxLen)
                       ELSE forceWrapLoop(words, i + 1,
                                [st EXCEPT !.currentLine = @ \o SP \o word,
                                           !.lineLen = @ + 1 + wordLen],
                                prefix, maxLen)

\* Variant of QuotedLen: a quoted line of width 4 or more loses 3 characters.
QuotedLen_Narrow(lineMax) == IF lineMax > 3 THEN lineMax - 3 ELSE lineMax - 2

\* The width forceWrapLine leaves to the text of a quoted line
\* ("maxLen -= 2").
QuotedLen(lineMax) == lineMax - 2

\* formatter.forceWrapLine: the lines that replace a line longer than lineMax.
forceWrapLine(line, lineMax) ==
    LET quoted == HasPrefix(line, QuotePrefix)
        prefix == IF quoted THEN QuotePrefix ELSE <<>>
        text == IF quoted THEN SubSeq(line, 3, Len(line)) ELSE line
        maxLen == IF quoted THEN QuotedLen(lineMax) ELSE lineMax
        words == Fields(text)
        st == forceWrapLoop(words, 1,
                            [result |-> <<>>, currentLine |-> prefix,
                             lineLen |-> 0],
                            prefix, maxLen)
    IN  IF HasPrefix(line, <<"#">>) THEN <<line>>
        ELSE IF words = <<>> THEN <<line>>
        ELSE IF Len(st.currentLine) > Len(prefix)
             THEN Append(st.result, st.currentLine)
             ELSE st.result

\* ------------------------------------------- formatter: FixCommonIssues
RECURSIVE fixLines(_, _, _, _)
\* The line loop of FixCommonIssues from the i-th line on.
fixLines(lines, i, inFrontmatter, fixedLines) ==
    IF i > Len(lines) THEN fixedLines
    ELSE LET line == TrimRightCut(lines[i], {" ", "\t"})
         IN  IF line = <<"-", "-", "-">>
             THEN fixLines(lines, i + 1, ~inFrontmatter,
                           Append(fixedLines, line))
             ELSE IF inFrontmatter \/ Len(line) <= maxLineLength
                  THEN fixLines(lines, i + 1, inFrontmatter,
                                Append(fixedLines, line))
                  ELSE fixLines(lines, i + 1, inFrontmatter,
                                fixedLines \o forceWrapLine(line, maxLineLength))

\* Variant of collapseBlank: one pass of ReplaceAll, not repeated.
collapseBlank_Once(content) ==
    ReplaceAll(content, <<"\n", "\n", "\n">>, <<"\n", "\n">>)

RECURSIVE collapseBlank(_)
\* The loop of FixCommonIssues that replaces "\n\n\n" by "\n\n" while the
\* content contains it.
collapseBlank(content) ==
    IF Contains(content, <<"\n", "\n", "\n">>)
    THEN collapseBlank(ReplaceAll(content, <<"\n", "\n", "\n">>,
                                  <<"\n", "\n">>))
    ELSE content

\* Variant of FixCommonIssues: the newlines at the end are not trimmed
\* before the final one is added.
FixCommonIssues_KeepNewlines(content) ==
    collapseBlank(
        Join(fixLines(Split(content, "\n"), 1, FALSE, <<>>), NL)) \o NL

\* formatter.FixCommonIssues
FixCommonIssues(content) ==
    TrimRightCut(
        collapseBlank(
            Join(fixLines(Split(content, "\n"), 1, FALSE, <<>>), NL)),
        {"\n"}) \o NL

\* ------------------------------------------ formatter: GenerateMarkdown
\* The literal texts of markdownTemplate between its fields.

TplTitle ==
    <<"-", "-", "-", "\n", "t", "i", "t", "l", "e", ":", " ", "\"">>

TplSource ==
    <<"\"", "\n", "s", "o", "u", "r", "c", "e", ":", " ", "\"">>

TplChannel ==
    <<"\"", "\n", "c", "h", "a", "n", "n", "e", "l", ":", " ", "\"">>

TplUploaded ==
    <<"\"", "\n", "u", "p", "l", "o", "a", "d", "e", "d", ":", " ", "\"">>

TplTranscribed ==
    <<"\"", "\n", "t", "r", "a", "n", "s", "c", "r", "i", "b", "e", "d",
      ":", " ", "\"">>

TplDuration ==
    <<"\"", "\n", "d", "u", "r", "a", "t", "i", "o", "n", ":", " ", "\"">>

TplModel ==
    <<"\"", "\n", "m", "o", "d", "e", "l", ":", " ", "\"", "w", "h", "i",
      "s", "p", "e", "r", "-">>

TplHeading ==
    <<"\"", "\n", "-", "-", "-", "\n", "\n", "#", " ">>

TplSection ==
    <<"#", "#", " ", "T", "r", "a", "n", "s", "c", "r", "i", "p", "t", "i",
      "o", "n">>

\* "Transcribed from "
AttributionFrom ==
    <<"T", "r", "a", "n", "s", "c", "r", "i", "b", "e", "d", " ", "f", "r",
      "o", "m", " ">>

\* " on "
AttributionOn ==
    <<" ", "o", "n", " ">>

\* time.Now().Format("2006-01-02") on the day of the run
TranscribedDate ==
    <<"2", "0", "2", "6", "-", "1", "1", "-", "0", "2">>


HasSuffix(s, suffix) ==
    Len(s) >= Len(suffix)
        /\ SubSeq(s, Len(s) - Len(suffix) + 1, Len(s)) = suffix

\* formatter.sanitizeTitle: four ReplaceAll of one character by another,
\* then TrimSpace.
sanitizeTitle(title) ==
    TrimSpace([i \in 1..Len(title) |->
        CASE title[i] = "\"" -> "'"
          [] title[i] \in {":", "\\", "/"} -> "-"
          [] OTHER -> title[i]])

RECURSIVE timestampContent(_, _, _)
\* The loop of GenerateMarkdown over the segments when cfg.Timestamps is set.
timestampContent(segs, i, content) ==
    IF i > Len(segs) THEN content
    ELSE LET timestamp == <<"*", "*", "[">> \o segs[i].Timestamp
                              \o <<"]", "*", "*">>
             text == TrimSpace(segs[i].Text)
             wrapped == wrapTextWithPrefix(timestamp \o SP, text,
                                           maxLineLength)
         IN  timestampContent(segs, i + 1, content \o wrapped \o NL \o NL)

\* The test of GenerateMarkdown that ends a paragraph after the i-th segment
\* (counted from 1).
EndsParagraph(seg, i) ==
    \/ HasSuffix(seg.Text, <<".">>)
    \/ HasSuffix(seg.Text, <<"?">>)
    \/ HasSuffix(seg.Text, <<"!">>)
    \/ i % 5 = 0

\* Variant of flushLast: the paragraph left in the buffer is dropped.
flushLast_Dropped(paragraph, content) == content

\* The flush of the paragraph left in the buffer after the last segment.
flushLast(paragraph, content) ==
    IF Len(paragraph) > 0 /\ TrimSpace(paragraph) # <<>>
    THEN content \o wrapText(TrimSpace(paragraph), maxLineLength) \o NL
    ELSE content

RECURSIVE proseContent(_, _, _, _)
\* The loop of GenerateMarkdown over the segments when cfg.Timestamps is not
\* set, and the flush of the last paragraph after it.
proseContent(segs, i, paragraph, content) ==
    IF i > Len(segs) THEN flushLast(paragraph, content)
    ELSE LET p == paragraph \o segs[i].Text \o SP
             text == TrimSpace(p)
         IN  IF EndsParagraph(segs[i], i)
             THEN proseContent(segs, i + 1, <<>>,
                      IF text # <<>>
                      THEN content \o wrapText(text, maxLineLength)
                               \o NL \o NL
                      ELSE content)
             ELSE proseContent(segs, i + 1, p, content)

\* The upload date GenerateMarkdown renders.
uploadDate(date) ==
    IF Len(date) = 8
    THEN SubSeq(date, 1, 4) \o <<"-">> \o SubSeq(date, 5, 6) \o <<"-">>
             \o SubSeq(date, 7, 8)
    ELSE date

\* The attribution line GenerateMarkdown builds, wrapped as a blockquote.
attribution(meta) ==
    wrapBlockquote(
        IF meta.ChannelURL # <<>>
        THEN AttributionFrom \o <<"[">> \o meta.Channel \o <<"]", "(">>
                 \o meta.ChannelURL \o <<")">> \o AttributionOn
                 \o TranscribedDate
        ELSE AttributionFrom \o meta.Channel \o AttributionOn
                 \o TranscribedDate,
        maxLineLength)

\* markdownTemplate executed on the MarkdownData of GenerateMarkdown.
executeTemplate(meta, cfg, content) ==
    TplTitle \o sanitizeTitle(meta.Title)
        \o TplSource \o cfg.Source
        \o TplChannel \o meta.Channel
        \o TplUploaded \o uploadDate(meta.UploadDate)
        \o TplTranscribed \o TranscribedDate
        \o TplDuration \o meta.Duration
        \o TplModel \o cfg.Model
        \o TplHeading \o sanitizeTitle(meta.Title) \o NL \o NL
        \o attribution(meta) \o NL \o NL
        \o TplSection \o NL \o NL
        \o TrimSpace(content) \o NL

\* formatter.GenerateMarkdown: the content it writes to the output file.
GenerateMarkdown(meta, segs, cfg) ==
    FixCommonIssues(
        executeTemplate(meta, cfg,
            IF cfg.Timestamps THEN timestampContent(segs, 1, <<>>)
            ELSE proseContent(segs, 1, <<>>, <<>>)))

\* --------------------------------------------------- formatter: slugify
UpperCase ==
    <<"A", "B", "C", "D", "E", "F", "G", "H", "I", "J", "K", "L", "M",
      "N", "O", "P", "Q", "R", "S", "T", "U", "V", "W", "X", "Y", "Z">>
LowerCase ==
    <<"a", "b", "c", "d", "e", "f", "g", "h", "i", "j", "k", "l", "m",
      "n", "o", "p", "q", "r", "s", "t", "u", "v", "w", "x", "y", "z">>

\* strings.ToLower on a string of ASCII characters.
ToLower(s) ==
    [i \in 1..Len(s) |->
        IF \E k \in 1..Len(UpperCase) : UpperCase[k] = s[i]
        THEN LowerCase[CHOOSE k \in 1..Len(UpperCase) : UpperCase[k] = s[i]]
        ELSE s[i]]

\* The characters outside the class [^a-z0-9] of slugify's expression.
SlugAlnum ==
    {LowerCase[k] : k \in 1..Len(LowerCase)}
        \cup {"0", "1", "2", "3", "4", "5", "6", "7", "8", "9"}

\* reg.ReplaceAllString(s, "-") for the expression [^a-z0-9]+ : every
\* maximal run of characters of the class becomes one "-". The first
\* character of a run is replaced, the others are deleted.
ReplaceRuns(s) ==
    LET marked == [i \in 1..Len(s) |->
                      IF s[i] \in SlugAlnum THEN s[i]
                      ELSE IF i = 1 \/ s[i - 1] \in SlugAlnum THEN "-"
                      ELSE ""]
    IN  SelectSeq(marked, LAMBDA c : c # "")

\* strings.Trim(s, cutset): s without its leading and trailing characters
\* of cutset.
Trim(s, cutset) ==
    LET kept == {i \in 1..Len(s) : s[i] \notin cutset}
    IN  IF kept = {} THEN <<>>
        ELSE SubSeq(s,
                 CHOOSE i \in kept : \A j \in kept : i <= j,
                 CHOOSE i \in kept : \A j \in kept : j <= i)

\* strings.LastIndex(s, c) for a one-character c: the index, counted from
\* 0, of the last c in s, or -1.
LastIndex(s, c) ==
    LET at == {i \in 1..Len(s) : s[i] = c}
    IN  IF at = {} THEN -1
        ELSE (CHOOSE i \in at : \A j \in at : j <= i) - 1

\* slugify before it caps the length.
slugBase(s) == Trim(ReplaceRuns(ToLower(s)), {"-"})

\* Variant of slugify: a long slug is always cut at 60 characters.
slugify_HardCut(s) ==
    LET base == slugBase(s)
    IN  IF Len(base) > 60 THEN SubSeq(base, 1, 60) ELSE base

\* formatter.slugify
slugify(s) ==
    LET base == slugBase(s)
    IN  IF Len(base) > 60
        THEN LET head == SubSeq(base, 1, 60)
                 lastDash == LastIndex(head, "-")
             IN  IF lastDash > 40 THEN SubSeq(head, 1, lastDash) ELSE head
        ELSE base

\* ------------------------------------- the wrap functions, called alone
\* Characters of the texts: two letters and the space.
WrapAlphabet == {"a", "b", " "}
\* The texts of at most n characters.
Texts(n) == UNION {[1..k -> WrapAlphabet] : k \in 0..n}
\* What a line handed to forceWrapLine may start with: nothing, the
\* blockquote marker, a heading marker.
LineMarkers == {<<>>, QuotePrefix, <<"#">>}
\* A first-line prefix as GenerateMarkdown builds it: a tag and a space.
WrapPrefixes == {<<"*", " ">>}

\* The arguments of a call of the wrap function op. wrapBlockquote and
\* forceWrapLine subtract 2 from the width for the marker "> ", so their
\* widths start at 3; forceWrapLine gets lines FixCommonIssues hands it:
\* longer than the width and without trailing blanks.
WrapInputs(op) ==
    CASE op = "wrapText" ->
            [prefix : {<<>>}, text : Texts(MaxTextLen), maxLen : 1..MaxWidth]
      [] op = "wrapTextWithPrefix" ->
            [prefix : WrapPrefixes, text : Texts(MaxTextLen),
             maxLen : 1..MaxWidth]
      [] op = "wrapBlockquote" ->
            [prefix : {<<>>}, text : Texts(MaxTextLen), maxLen : 3..MaxWidth]
      [] op = "forceWrapLine" ->
            {i \in [prefix : LineMarkers, text : Texts(MaxTextLen),
                    maxLen : 3..MaxWidth] :
                LET line == i.prefix \o i.text
                IN  /\ Len(line) > i.maxLen
                    /\ TrimRightCut(line, {" ", "\t"}) = line}

WrapOps == {"wrapText", "wrapTextWithPrefix", "wrapBlockquote",
            "forceWrapLine"}

Returned(value) == [returned |-> TRUE, value |-> value]

WrapInit ==
    /\ PipelineInit
    /\ TuiInit
    /\ fop \in WrapOps
    /\ fin \in WrapInputs(fop)
    /\ fout = NoResult

\* The call of formatter function op returns value.
Return(op, value) ==
    /\ fop = op
    /\ ~fout.returned
    /\ fout' = Returned(value)
    /\ UNCHANGED <<fop, fin, pipelineVars, tuiVars>>

CallWrapText == Return("wrapText", wrapText(fin.text, fin.maxLen))

CallWrapTextWithPrefix ==
    Return("wrapTextWithPrefix",
           wrapTextWithPrefix(fin.prefix, fin.text, fin.maxLen))

CallWrapBlockquote ==
    Return("wrapBlockquote", wrapBlockquote(fin.text, fin.maxLen))

\* forceWrapLine returns a slice of lines; they are kept joined as
\* FixCommonIssues joins them.
CallForceWrapLine ==
    Return("forceWrapLine",
           Join(forceWrapLine(fin.prefix \o fin.text, fin.maxLen), NL))

WrapNext ==
    \/ CallWrapText \/ CallWrapTextWithPrefix \/ CallWrapBlockquote
    \/ CallForceWrapLine

WrapSpec == WrapInit /\ [][WrapNext]_vars

\* ------------------------------------ the formatter's document functions
\* The word of n characters c.
Word(c, n) == [i \in 1..n |-> c]
Dashes == <<"-", "-", "-">>

\* Lines of a document: a blank line, a short line, a line of blanks.
ShortLines == {<<>>, <<"a">>, <<" ">>}
\* Lines of a document, some longer than maxLineLength: the YAML fence, a
\* word of 81 characters, two words of 77 characters around the token "---",
\* a short line, a short line with a blank and a tab at its end.
LongLines ==
    {Dashes, Word("b", 81), <<"a">>, <<"a", " ", "\t">>,
     Word("a", 77) \o SP \o Dashes \o SP \o Word("a", 77)}

\* The documents of at most n lines, each one of lines.
Documents(lines, n) ==
    {Join(d, NL) : d \in UNION {[1..k -> lines] : k \in 1..n}}

FixInputs ==
    [content : Documents(ShortLines, MaxShortLines)
                 \cup Documents(LongLines, MaxLongDocLines)]

\* Segment texts as Transcribe stores them (trimmed, not empty): two short
\* ones, with and without a final period, the token "---", whitespace-free
\* tokens of 81 and 200 characters, one of them starting with "#", a
\* sentence of two words of 50 characters, and a sentence made of the token
\* "---" and a word of 81 characters.
SegmentTexts ==
    {<<"a", ".">>, <<"b">>, Dashes, Word("b", 81), Word("c", 200),
     <<"#">> \o Word("c", 199),
     Word("d", 50) \o SP \o Word("e", 49) \o <<"!">>,
     Dashes \o SP \o Word("b", 81) \o <<".">>}
\* The texts of a recording of short segments.
ShortTexts == {<<"a", ".">>, <<"b">>}
\* transcriber.formatTimestamp on a timestamp whose parts are sequences of
\* characters, as the formatter reads its result.
formatTimestampText(ts) ==
    IF ts.h = <<"0", "0">>
    THEN <<"[">> \o ts.m \o <<":">> \o ts.s \o <<"]">>
    ELSE <<"[">> \o ts.h \o <<":">> \o ts.m \o <<":">> \o ts.s \o <<"]">>
\* The timestamps 00:01:05.000 and 01:01:05.000 of a whisper line.
FirstMinute == [h |-> <<"0", "0">>, m |-> <<"0", "1">>, s |-> <<"0", "5">>]
FirstHour == [h |-> <<"0", "1">>, m |-> <<"0", "1">>, s |-> <<"0", "5">>]
\* Segment.Timestamp as Transcribe sets it, in the first hour and after it.
SegmentTimestamps == {formatTimestampText(FirstMinute)}
LateTimestamps == {formatTimestampText(FirstHour)}
\* Upload dates as the extractor may report them: YYYYMMDD, a date of 7
\* characters, 8 characters that are not all digits.
UploadDates ==
    {<<"2", "0", "2", "4", "0", "1", "3", "1">>,
     <<"2", "0", "2", "4", "0", "1", "3">>,
     <<"2", "0", "2", "4", "-", "1", "-", "5">>}
\* The metadata of a video, with and without a channel URL.
Metadatas ==
    [Title : {<<"T", ":", "t">>}, Channel : {<<"c">>},
     ChannelURL : {<<>>, <<"u">>},
     UploadDate : UploadDates,
     Duration : {<<"1", ":", "0", "5">>}]
\* The metadata of the calls that vary the segments.
UsualMetadata ==
    [Title |-> <<"T", ":", "t">>, Channel |-> <<"c">>, ChannelURL |-> <<>>,
     UploadDate |-> <<"2", "0", "2", "4", "0", "1", "3", "1">>,
     Duration |-> <<"1", ":", "0", "5">>]
\* The fields of the configuration GenerateMarkdown reads.
Configs ==
    [Timestamps : BOOLEAN, Model : {<<"b", "a", "s", "e">>},
     Source : {<<"s">>}]

\* The lists of lo to hi segments with a text of texts.
SegmentLists(texts, lo, hi) ==
    UNION {[1..k -> [Text : texts, Timestamp : SegmentTimestamps]] :
               k \in lo..hi}
\* The lists of one segment after the first hour.
LateSegments == [1..1 -> [Text : ShortTexts, Timestamp : LateTimestamps]]

\* The calls of GenerateMarkdown: every metadata with at most one short
\* segment; every list of at most MaxSegments segments; every list of 5 to
\* MaxProseSegments short segments, without timestamps; one short segment
\* after the first hour.
GenerateInputs ==
    [meta : Metadatas, segs : SegmentLists(ShortTexts, 0, 1), cfg : Configs]
        \cup [meta : {UsualMetadata}, segs : LateSegments, cfg : Configs]
        \cup [meta : {UsualMetadata},
              segs : SegmentLists(SegmentTexts, 0, MaxSegments),
              cfg : Configs]
        \cup [meta : {UsualMetadata},
              segs : SegmentLists(ShortTexts, 5, MaxProseSegments),
              cfg : {c \in Configs : ~c.Timestamps}]

FormatInit ==
    /\ PipelineInit
    /\ TuiInit
    /\ \/ fop = "FixCommonIssues" /\ fin \in FixInputs
       \/ fop = "GenerateMarkdown" /\ fin \in GenerateInputs
    /\ fout = NoResult

CallGenerateMarkdown ==
    Return("GenerateMarkdown", GenerateMarkdown(fin.meta, fin.segs, fin.cfg))

CallFixCommonIssues ==
    Return("FixCommonIssues", FixCommonIssues(fin.content))

\* FixCommonIssues applied to its own result.
CallFixCommonIssuesAgain ==
    /\ fop = "FixCommonIssues"
    /\ fout.returned
    /\ "again" \notin DOMAIN fout
    /\ fout' = [returned |-> TRUE, value |-> fout.value,
                again |-> FixCommonIssues(fout.value)]
    /\ UNCHANGED <<fop, fin, pipelineVars, tuiVars>>

FormatNext ==
    CallFixCommonIssues \/ CallFixCommonIssuesAgain \/ CallGenerateMarkdown

FormatSpec == FormatInit /\ [][FormatNext]_vars

\* ------------------------------------------------- slugify, called alone
\* Lengths of the words of a title: around the positions 40 and 60 where
\* slugify decides, and short ones to fill up.
SlugWordLens == {1, 19, 40, 41, 59, 60, 61}
\* What stands between two words of a title.
SlugSeparators == {<<" ">>, <<" ", "-", " ">>}
\* What a title may start and end with.
SlugEdges == {<<>>, <<"!">>}
\* The character the k-th word of a title is made of.
SlugLetters == <<"A", "b", "7", "c">>

\* The title of the words of the lengths lens, sep between them and edge
\* at both ends.
SlugTitle(lens, sep, edge) ==
    edge \o Join([k \in 1..Len(lens) |-> Word(SlugLetters[k], lens[k])], sep)
         \o edge

\* The titles handed to slugify: at most MaxSlugWords words.
SlugTitles ==
    {SlugTitle(lens, sep, edge) :
        lens \in UNION {[1..k -> SlugWordLens] : k \in 0..MaxSlugWords},
        sep \in SlugSeparators, edge \in SlugEdges}

SlugInit ==
    /\ PipelineInit
    /\ TuiInit
    /\ fop = "slugify"
    /\ fin \in [title : SlugTitles]
    /\ fout = NoResult

CallSlugify == Return("slugify", slugify(fin.title))

SlugNext == CallSlugify

SlugSpec == SlugInit /\ [][SlugNext]_vars

\* ------------------------------------------------- vocabulary of claims
Last(s) == s[Len(s)]
Front(s) == SubSeq(s, 1, Len(s) - 1)

\* Run has returned (the terminal send is its last statement).
RunReturned == pc \in {"returned", "closed"}

IsTerminal(e) == e.type \in {"CompletedEvent", "ErrorEvent"}

\* e is a ProgressEvent of the step, whatever its fraction.
IsStepProgress(e, step) == e.type = "ProgressEvent" /\ e.Step = step

\* e is Progress(step, frac) of the event grammar.
IsProgress(e, step, frac) == IsStepProgress(e, step) /\ e.Progress = frac

\* What the event grammar of a successful run allows at position k, when the
\* download step ends at position i and the transcribe step at position j.
Slot(e, k, i, j) ==
    CASE k = 1 -> IsProgress(e, "metadata", 0)
      [] k = 2 -> e.type = "MetadataEvent"
      [] k = 3 -> IsProgress(e, "metadata", 100)
      [] k = 4 -> IsProgress(e, "download", 0)
      [] k > 4 /\ k < i -> IsStepProgress(e, "download")
      [] k = i -> IsProgress(e, "download", 100)
      [] k = i + 1 -> IsProgress(e, "transcribe", 0)
      [] k > i + 1 /\ k < j ->
            IF (k - i) % 2 = 0 THEN e.type = "TranscriptEvent"
            ELSE IsStepProgress(e, "transcribe")
      [] k = j -> IsProgress(e, "transcribe", 100)
      [] k = j + 1 -> IsProgress(e, "format", 0)
      [] k = j + 2 -> IsProgress(e, "format", 100)
      [] k = j + 3 -> IsProgress(e, "validate", 0)
      [] k = j + 4 -> IsProgress(e, "validate", 100)
      [] k = j + 5 -> e.type = "CompletedEvent"
      [] OTHER -> FALSE

\* s is a prefix of a word of the grammar with the two step ends at i and j.
Shape(s, i, j) ==
    /\ i >= 5
    /\ j >= i + 2
    /\ (j - i) % 2 = 0
    /\ \A k \in 1..Len(s) : Slot(s[k], k, i, j)

Ends(s) == 1..(Len(s) + 4)

\* s is a word of the grammar of a successful run.
IsSuccessfulRun(s) ==
    \E i, j \in Ends(s) : Shape(s, i, j) /\ Len(s) = j + 5

\* s is what a successful run sends up to and including Progress(stage,0),
\* plus the progress events of that stage's callback.
IsPrefixInto(s, stage) ==
    CASE stage = "metadata" -> Len(s) = 1 /\ Shape(s, 5, 7)
      [] stage = "download" ->
            Len(s) >= 4 /\ Shape(s, Len(s) + 1, Len(s) + 3)
      [] stage = "transcribe" ->
            \E i \in Ends(s) : Len(s) = i + 1 /\ Shape(s, i, i + 2)
      [] stage = "format" ->
            \E i, j \in Ends(s) : Len(s) = j + 1 /\ Shape(s, i, j)

Stages == <<"metadata", "download", "transcribe", "format", "validate">>

\* The position at which Run sends the ErrorEvent of a stage.
ErrorPc(stage) ==
    CASE stage = "metadata" -> "m_err"
      [] stage = "download" -> "d_err"
      [] stage = "transcribe" -> "t_err"
      [] stage = "format" -> "f_err"

\* ------------------------------------------------------------------ C1
\* C1: every successful run of Pipeline.Run (one that has returned after
\* sending CompletedEvent) has sent exactly a word of the grammar
\* Progress(metadata,0) Metadata Progress(metadata,1) Progress(download,0)
\* Progress(download,*)* Progress(download,1) Progress(transcribe,0)
\* (Transcript Progress(transcribe,*))* Progress(transcribe,1)
\* Progress(format,0) Progress(format,1) Progress(validate,0)
\* Progress(validate,1) Completed.
C1_EventOrdering ==
    (RunReturned /\ Last(sent).type = "CompletedEvent") => IsSuccessfulRun(sent)

\* A successful run with download progress and two transcript chunks.
C1_Witness ==
    /\ RunReturned
    /\ Last(sent).type = "CompletedEvent"
    /\ \E k \in 1..Len(sent) : sent[k] = ProgressEvent("download", 50, "Downloading...")
    /\ Cardinality({k \in 1..Len(sent) : sent[k].type = "TranscriptEvent"}) = 2

\* ------------------------------------------------------------------ C2
\* C2: a run never sends two terminal events, a terminal event is the last
\* event sent, and a run that has returned has sent one.
C2_TerminalUniqueness ==
    /\ \A k \in 1..Len(sent) : IsTerminal(sent[k]) => k = Len(sent)
    /\ RunReturned => (sent # <<>> /\ IsTerminal(Last(sent)))

\* A run that failed in the format step has returned.
C2_Witness ==
    /\ RunReturned
    /\ Last(sent).type = "ErrorEvent"
    /\ Last(sent).Step = "format"

\* ------------------------------------------------------------------ C3
\* C3: when the collaborator of stage k in {metadata, download, transcribe,
\* format} has returned an error, Run is about to send or has sent
\* ErrorEvent{k, err} as its last event, the events before it are the
\* successful-run prefix up to Progress(k,0) plus the stage's own progress
\* events, and the collaborators invoked are exactly those of stages 1..k.
C3_StageFailure ==
    \A n \in 1..4 :
        failed = Stages[n] =>
            /\ pc \in {ErrorPc(Stages[n]), "returned", "closed"}
            /\ calls = SubSeq(Stages, 1, n)
            /\ pc = ErrorPc(Stages[n]) => IsPrefixInto(sent, Stages[n])
            /\ RunReturned =>
                 /\ Last(sent) = ErrorEvent(Stages[n], err)
                 /\ IsPrefixInto(Front(sent), Stages[n])

\* A download that failed after reporting progress has ended the run.
C3_Witness ==
    /\ failed = "download"
    /\ RunReturned
    /\ Len(sent) >= 6

\* ------------------------------------------------------------------ C4
\* C4: if Pipeline.Cancel is called while a stage waits on its running
\* collaborator (metadata, download, transcribe or validate), the collaborator
\* call is interrupted (its process does not keep running) and the run ends
\* with an ErrorEvent, never with a CompletedEvent.
C4_CancelEndsInError ==
    /\ (cancelAt # "none" /\ StageAt(pc) = cancelAt) => proc # "running"
    /\ (cancelAt # "none" /\ RunReturned) =>
          /\ Last(sent).type = "ErrorEvent"
          /\ \A k \in 1..Len(sent) : sent[k].type # "CompletedEvent"

\* ------------------------------------------------------------------ C5
\* The events of type t in s.
CountOf(s, t) == Cardinality({k \in 1..Len(s) : s[k].type = t})

\* C5 as stated: after the transcriber process ended with an error, the run
\* ends with ErrorEvent{transcribe} exactly when no segment was captured, and
\* otherwise sends no ErrorEvent and ends with CompletedEvent.
C5_Original ==
    (RunReturned /\ waitErr) =>
        IF segments = <<>>
        THEN Last(sent) = ErrorEvent("transcribe", "whisper failed")
        ELSE /\ CountOf(sent, "ErrorEvent") = 0
             /\ Last(sent).type = "CompletedEvent"

\* C5 as amended: after the transcriber process ended with an error, the run
\* ends with ErrorEvent{transcribe} exactly when no segment was captured;
\* otherwise Transcribe returns the captured segments without an error, Run
\* sends Progress(transcribe,1,"Done") and invokes Format, no
\* ErrorEvent{transcribe} is sent, and the run ends with CompletedEvent unless
\* Format itself fails, in which case it ends with ErrorEvent{format}.
C5_PartialSuccess ==
    /\ (pc \in {"t_p1", "t_err"} /\ waitErr) =>
          /\ (pc = "t_err") <=> (segments = <<>>)
          /\ (pc = "t_err") <=> (failed = "transcribe")
    /\ (RunReturned /\ waitErr) =>
        IF segments = <<>>
        THEN Last(sent) = ErrorEvent("transcribe", "whisper failed")
        ELSE /\ \A k \in 1..Len(sent) :
                   ~(sent[k].type = "ErrorEvent" /\ sent[k].Step = "transcribe")
             /\ CountOf(sent, "TranscriptEvent") = Len(segments)
             /\ \E k \in 1..Len(sent) :
                   sent[k] = ProgressEvent("transcribe", 100, "Done")
             /\ \E n \in 1..Len(calls) : calls[n] = "format"
             /\ IF failed = "format"
                THEN Last(sent) = ErrorEvent("format", err)
                ELSE /\ failed = "none"
                     /\ Last(sent).type = "CompletedEvent"
                     /\ IsSuccessfulRun(sent)

\* Scenario E: two segments captured, the process then fails, the run
\* completes.
C5_Witness ==
    /\ RunReturned
    /\ waitErr
    /\ Len(segments) = 2
    /\ Last(sent).type = "CompletedEvent"

\* ------------------------------------------------------------------ C6
\* C6: no ErrorEvent ever names the validate step; once LintMarkdown has
\* returned, with or without an error, the run sends exactly one
\* Progress(validate,1), whose message is "Warnings found" if it returned an
\* error and "Passed" if not, immediately followed by CompletedEvent, the last
\* event of the run.
C6_LintNeverFatal ==
    /\ \A k \in 1..Len(sent) :
          ~(sent[k].type = "ErrorEvent" /\ sent[k].Step = "validate")
    /\ lintErr # "unset" => pc \in {"v_warn", "v_pass", "c_ev", "returned", "closed"}
    /\ (lintErr # "unset" /\ RunReturned) =>
          /\ Cardinality({k \in 1..Len(sent) :
                            IsProgress(sent[k], "validate", 100)}) = 1
          /\ Len(sent) >= 2
          /\ sent[Len(sent) - 1] =
                ProgressEvent("validate", 100,
                    IF lintErr = "nil" THEN "Passed" ELSE "Warnings found")
          /\ Last(sent).type = "CompletedEvent"
          /\ CountOf(sent, "ErrorEvent") = 0

\* A run whose lint validator reported violations has completed.
C6_Witness ==
    /\ RunReturned
    /\ lintErr = "markdown lint failed"
    /\ Last(sent).type = "CompletedEvent"

\* ------------------------------------------------------------------ C7
\* The UI message variant that corresponds to an event variant.
VariantFor(t) ==
    CASE t = "MetadataEvent" -> "MetadataFetchedMsg"
      [] t = "ProgressEvent" -> "PipelineProgressMsg"
      [] t = "TranscriptEvent" -> "TranscriptChunkMsg"
      [] t = "CompletedEvent" -> "PipelineCompletedMsg"
      [] t = "ErrorEvent" -> "PipelineErrorMsg"

\* The events whose program.Send has been made.
Forwarded ==
    IF cpc = "send" THEN Front(received) ELSE received

\* In every state the events sent are the events received followed by the
\* events in the buffer (nothing lost, duplicated or reordered), the buffer
\* holds at most ChanCap events, and the messages handed to the UI are one
\* per forwarded event, in order, of the matching variant.
C7_Conservation ==
    /\ sent = received \o events
    /\ Len(events) <= ChanCap
    /\ cpc = "send" => (received # <<>> /\ cur = Last(received))
    /\ Len(msgs) = Len(Forwarded)
    /\ \A k \in 1..Len(msgs) :
          /\ msgs[k] = ToMsg(Forwarded[k])
          /\ msgs[k].type = VariantFor(Forwarded[k].type)

\* C7: for every interleaving and every occupancy of the queue the consumer
\* receives exactly the sequence sent and forwards each event as one UI
\* message of the matching variant, in order; while the queue is full no
\* event is sent (the producer waits, it does not discard).
C7_FifoDelivery ==
    /\ []C7_Conservation
    /\ [][Len(events) = ChanCap => sent' = sent]_vars

\* The producer stands at a send with the queue full, after the consumer has
\* already received and forwarded events.
C7_Witness ==
    /\ Len(events) = ChanCap
    /\ pc = "t_cb2"
    /\ Len(msgs) >= 3
    /\ cpc = "send"

\* ------------------------------------------------------------------ C8
\* A terminal event has been handed to the UI.
TerminalDelivered ==
    \E k \in 1..Len(msgs) :
        msgs[k].type \in {"PipelineCompletedMsg", "PipelineErrorMsg"}

\* C8: with fair scheduling of the two goroutines and collaborators that
\* return, every run eventually returns and its terminal event is eventually
\* delivered to the consumer.
C8_TerminalDelivery == <>(RunReturned /\ TerminalDelivered)

\* The terminal event of a run that filled the queue has been delivered.
C8_Witness ==
    /\ TerminalDelivered
    /\ Len(sent) > 2 * ChanCap
    /\ cpc = "done"

\* ------------------------------------------------------------------ C9
\* C9: the channel is closed only after the terminal event was sent, nothing
\* is sent once it is closed (no collaborator call, and so no callback, is
\* in flight once Run has returned), the receive loop ends only after it has
\* received everything up to the terminal event, and it does end.
C9_CloseAfterTerminal ==
    /\ [](closed => (RunReturned /\ sent # <<>> /\ IsTerminal(Last(sent))))
    /\ [](RunReturned => (proc = "none" /\ StageAt(pc) = "none"))
    /\ [][closed => sent' = sent]_vars
    /\ [](cpc = "done" =>
            (closed /\ received = sent /\ IsTerminal(Last(received))))
    /\ <>(cpc = "done")

\* The channel is closed while the consumer still has events to receive.
C9_Witness ==
    /\ closed
    /\ Len(events) = ChanCap
    /\ cpc = "recv"

\* ----------------------------------------------------------------- C10
\* C10: the TranscriptEvents sent are, in order, the captured segments, one
\* each; every TranscriptEvent is immediately followed by a ProgressEvent of
\* step "transcribe" with message "Transcribing..." (or is the last event
\* sent while the callback stands at that second send), and every such
\* ProgressEvent immediately follows a TranscriptEvent.
C10_ChunkPairs ==
    LET idx == {k \in 1..Len(sent) : sent[k].type = "TranscriptEvent"}
        IsChunkProgress(e) ==
            IsStepProgress(e, "transcribe") /\ e.Message = "Transcribing..."
    IN  /\ Cardinality(idx) = Len(segments) - (IF pc = "t_cb1" THEN 1 ELSE 0)
        /\ \A k \in idx :
              /\ LET n == Cardinality({m \in idx : m <= k})
                 IN  /\ sent[k].Text = segments[n].Text
                     /\ sent[k].Timestamp = segments[n].Timestamp
              /\ IF k = Len(sent) THEN pc = "t_cb2"
                 ELSE IsChunkProgress(sent[k + 1])
        /\ pc = "t_cb2" => (sent # <<>> /\ Last(sent).type = "TranscriptEvent")
        /\ \A k \in 1..Len(sent) :
              IsChunkProgress(sent[k]) => (k > 1 /\ (k - 1) \in idx)

\* Two segments were captured and the transcribe step is over.
C10_Witness ==
    /\ Len(segments) = 2
    /\ CountOf(sent, "TranscriptEvent") = 2
    /\ pc = "f_p0"

\* ----------------------------------------------------------------- C13
\* The whitespace-delimited tokens of a text, counted by their last
\* characters.
TokenCount(s) ==
    Cardinality({i \in 1..Len(s) :
        /\ s[i] \notin {" ", "\t", "\n"}
        /\ (i = Len(s) \/ s[i + 1] \in {" ", "\t", "\n"})})

RECURSIVE SumTokens(_)
SumTokens(segs) ==
    IF segs = <<>> THEN 0
    ELSE TokenCount(segs[Len(segs)].Text) + SumTokens(Front(segs))

\* C13: the WordCount of the Stats a CompletedEvent carries is the sum, over
\* the segments Transcribe returned, of the number of whitespace-delimited
\* tokens of each segment's text.
C13_WordCount ==
    \A k \in 1..Len(sent) :
        sent[k].type = "CompletedEvent" =>
            sent[k].Stats.WordCount = SumTokens(segments)

\* A run completed with two segments of two words each.
C13_Witness ==
    /\ Len(segments) = 2
    /\ sent # <<>>
    /\ Last(sent).type = "CompletedEvent"
    /\ Last(sent).Stats.WordCount = 4

\* ----------------------------------------------------------------- C14
\* Transcribe returned because findModelPath found no asset for the model.
ModelAbsent == failed = "transcribe" /\ err = "model not found"

\* C14: when the model asset is absent, Transcribe fails with an error of
\* the distinguished ErrModelNotFound type and the ErrorEvent of the run
\* carries an error of that type.
C14_ModelNotFoundKind ==
    ModelAbsent =>
        /\ IsErrModelNotFound(err)
        /\ \A k \in 1..Len(sent) :
              sent[k].type = "ErrorEvent" => IsErrModelNotFound(sent[k].Err)

\* ----------------------------------------------------------------- C11
\* C11: every ProgressEvent sent carries a fraction between 0 and 1 (0 and
\* 100 hundredths), whatever the number of lines the transcriber printed.
C11_FractionInUnitInterval ==
    \A k \in 1..Len(sent) :
        sent[k].type = "ProgressEvent" =>
            (0 <= sent[k].Progress /\ sent[k].Progress <= 100)

\* ----------------------------------------------------------------- C12
\* The fractions of the ProgressEvents of step "transcribe", in the order
\* they were sent.
TranscribeFractions ==
    LET idx == {k \in 1..Len(sent) : IsStepProgress(sent[k], "transcribe")}
        Nth(n) == CHOOSE k \in idx : Cardinality({m \in idx : m <= k}) = n
    IN  [n \in 1..Cardinality(idx) |-> sent[Nth(n)].Progress]

\* C12: within the Transcribe stage the fractions of the successive
\* ProgressEvents, from the initial 0 through the chunk events to the final
\* "Done", never decrease and never exceed 1.
C12_MonotoneSaturating ==
    LET f == TranscribeFractions
    IN  /\ \A n \in 1..Len(f) : f[n] <= 100
        /\ \A n \in 1..(Len(f) - 1) : f[n] <= f[n + 1]

\* ----------------------------------------------------------------- C16
\* The lines of the string a wrap function returned.
OutLines == Split(fout.value, "\n")

\* A line is one whole word of the text that was wrapped.
IsWholeWord(line, text) ==
    \E i \in 1..Len(Fields(text)) : Fields(text)[i] = line

WrappedText ==
    IF fop = "forceWrapLine" /\ fin.prefix = <<"#">>
    THEN fin.prefix \o fin.text
    ELSE fin.text

EffectiveWidth ==
    IF fop = "wrapBlockquote" \/ (fop = "forceWrapLine" /\ fin.prefix = QuotePrefix)
    THEN fin.maxLen - 2
    ELSE fin.maxLen

\* An output line without the marker the call put before it.
Unmarked(line, n) ==
    LET marker == IF fop = "wrapTextWithPrefix" /\ n = 1 THEN fin.prefix
                  ELSE IF fop = "wrapBlockquote" THEN QuotePrefix
                  ELSE IF fop = "forceWrapLine" /\ fin.prefix = QuotePrefix
                       THEN QuotePrefix
                       ELSE <<>>
    IN  IF HasPrefix(line, marker)
        THEN SubSeq(line, Len(marker) + 1, Len(line))
        ELSE line

\* The pieces between the blanks and line breaks of the output, in order.
RECURSIVE PiecesFrom(_)
PiecesFrom(n) ==
    IF n > Len(OutLines) THEN <<>>
    ELSE Fields(Unmarked(OutLines[n], n)) \o PiecesFrom(n + 1)

RECURSIVE Flatten(_)
Flatten(ss) == IF ss = <<>> THEN <<>> ELSE Head(ss) \o Flatten(Tail(ss))

\* pieces are the words ws, each word of at most width characters as one
\* piece and each longer word as one or more pieces that make it up.
RECURSIVE KeepsWords(_, _, _)
KeepsWords(pieces, ws, width) ==
    IF ws = <<>> THEN pieces = <<>>
    ELSE IF Len(Head(ws)) <= width
         THEN /\ pieces # <<>>
              /\ Head(pieces) = Head(ws)
              /\ KeepsWords(Tail(pieces), Tail(ws), width)
         ELSE \E k \in 1..Len(pieces) :
                /\ Flatten(SubSeq(pieces, 1, k)) = Head(ws)
                /\ KeepsWords(SubSeq(pieces, k + 1, Len(pieces)), Tail(ws),
                              width)

\* C20: no wrap function places a line break inside a word that is at most
\* as long as the effective width: the output consists of the words of the
\* text, in order, and only words longer than that width come in pieces.
C20_NoBreakInsideWord ==
    (fop \in WrapOps /\ fout.returned) =>
        KeepsWords(PiecesFrom(1), Fields(WrappedText), EffectiveWidth)

\* forceWrapLine broke a quoted line between two words that fit and inside
\* one that does not.
C20_Witness ==
    /\ fop = "forceWrapLine"
    /\ fin.prefix = QuotePrefix
    /\ fout.returned
    /\ \E i \in 1..Len(Fields(fin.text)) :
          Len(Fields(fin.text)[i]) > EffectiveWidth
    /\ \E i \in 1..Len(Fields(fin.text)) :
          /\ Len(Fields(fin.text)[i]) = EffectiveWidth
          /\ \E n \in 1..Len(OutLines) :
                OutLines[n] = QuotePrefix \o Fields(fin.text)[i]

\* ----------------------------------------------------------------- C17
\* C17: FixCommonIssues is idempotent: applied to its own result it returns
\* that result.
C17_Idempotent ==
    (fop = "FixCommonIssues" /\ fout.returned /\ "again" \in DOMAIN fout) =>
        fout.again = fout.value

\* ----------------------------------------------------------------- C18
\* The lines of a document; the newline that ends the document does not
\* start another line.
DocLines(content) ==
    IF content # <<>> /\ Last(content) = "\n"
    THEN Split(Front(content), "\n")
    ELSE Split(content, "\n")

IsBlank(line) == \A i \in 1..Len(line) : line[i] \in {" ", "\t"}

\* For each non-blank line of a document, in order, the number of blank
\* lines directly before it.
BlankRuns(content) ==
    LET lines == DocLines(content)
        full == Sorted({i \in 1..Len(lines) : ~IsBlank(lines[i])})
    IN  [k \in 1..Len(full) |->
            full[k] - 1 - (IF k = 1 THEN 0 ELSE full[k - 1])]

Min(a, b) == IF a <= b THEN a ELSE b

\* FixCommonIssues has returned for a document without a line that it
\* rewraps.
FixedShortLines ==
    /\ fop = "FixCommonIssues"
    /\ fout.returned
    /\ \A n \in 1..Len(DocLines(fin.content)) :
          Len(DocLines(fin.content)[n]) <= maxLineLength

BodyLines ==
    LET lines == DocLines(fout.value)
        fences == Sorted({n \in 1..Len(lines) : lines[n] = Dashes})
    IN  SubSeq(lines, fences[2] + 1, Len(lines))

\* C15: in the document GenerateMarkdown writes, every line outside the
\* frontmatter that is not a heading has at most maxLineLength characters.
C15_BodyLineLength ==
    (fop = "GenerateMarkdown" /\ fout.returned) =>
        LET body == BodyLines
        IN  \A n \in 1..Len(body) :
                \/ HasPrefix(body[n], <<"#">>)
                \/ Len(body[n]) <= maxLineLength

\* ----------------------------------------------------------------- C19
\* The one segment of the call is a whitespace-free token longer than the
\* width.
OneLongToken ==
    /\ fop = "GenerateMarkdown"
    /\ fout.returned
    /\ Len(fin.segs) = 1
    /\ Len(fin.segs[1].Text) > maxLineLength
    /\ Len(Fields(fin.segs[1].Text)) = 1

\* C19: such a token appears in the document as consecutive lines of
\* exactly maxLineLength characters and a last line of 1 to maxLineLength
\* characters, which make up the token.
C19_HardSplit ==
    OneLongToken =>
        LET token == fin.segs[1].Text
            lines == DocLines(fout.value)
            k == (Len(token) + maxLineLength - 1) \div maxLineLength
        IN  \E n \in 1..Len(lines) :
                /\ n + k - 1 <= Len(lines)
                /\ \A j \in 0..(k - 2) : Len(lines[n + j]) = maxLineLength
                /\ Len(lines[n + k - 1]) \in 1..maxLineLength
                /\ Flatten(SubSeq(lines, n, n + k - 1)) = token

FitsBudget ==
    CASE fop = "wrapText" -> Len(fin.text) <= fin.maxLen
      [] fop = "wrapTextWithPrefix" ->
            Len(fin.prefix) + Len(fin.text) <= fin.maxLen
      [] fop = "wrapBlockquote" -> Len(fin.text) <= fin.maxLen - 2
      [] OTHER -> FALSE

\* C27: a text that fits the budget is returned as it is, with its own
\* spacing, behind the prefix of the wrap function (none for wrapText,
\* "> " for wrapBlockquote).
C27_FittingTextUnchanged ==
    (fout.returned /\ FitsBudget) =>
        fout.value = (IF fop = "wrapBlockquote" THEN QuotePrefix
                      ELSE fin.prefix) \o fin.text

\* wrapText returned a fitting text that has two blanks between two words.
C27_Witness ==
    /\ fop = "wrapText"
    /\ fout.returned
    /\ FitsBudget
    /\ \E i \in 1..(Len(fin.text) - 3) :
          /\ fin.text[i] # " "
          /\ fin.text[i + 1] = " "
          /\ fin.text[i + 2] = " "
          /\ fin.text[i + 3] # " "
    /\ fout.value = fin.text

\* ----------------------------------------------------------------- C26
\* C26: in the result of FixCommonIssues no line ends with a space or a
\* tab, and the result ends with exactly one newline character.
C26_TrimmedAndTerminated ==
    (fop = "FixCommonIssues" /\ fout.returned) =>
        LET out == fout.value
            lines == Split(out, "\n")
        IN  /\ \A n \in 1..Len(lines) :
                  lines[n] = <<>> \/ Last(lines[n]) \notin {" ", "\t"}
            /\ out # <<>>
            /\ Last(out) = "\n"
            /\ Len(out) >= 2 => out[Len(out) - 1] # "\n"

\* FixCommonIssues was given a document of two or more lines whose last
\* line is a text line ending with a tab: it has blanks to trim and no
\* final newline.
C26_Witness ==
    /\ fop = "FixCommonIssues"
    /\ fout.returned
    /\ LET lines == Split(fin.content, "\n")
       IN  /\ \E n \in 1..Len(lines) :
                 Len(lines[n]) >= 2 /\ lines[n][1] = "a"
                     /\ Last(lines[n]) = "\t"
           /\ Len(lines) >= 2
           /\ Last(lines) # <<>>
           /\ Last(Last(lines)) = "\t"

\* ----------------------------------------------------------------- C22
\* The lines of the written document after the heading "## Transcription".
TranscriptLines ==
    LET lines == DocLines(fout.value)
        heads == Sorted({n \in 1..Len(lines) : lines[n] = TplSection})
    IN  SubSeq(lines, heads[1] + 1, Len(lines))

\* The paragraphs of a sequence of lines: its maximal runs of non-blank
\* lines, in order, each a sequence of lines.
ParagraphsOf(lines) ==
    LET first == Sorted({n \in 1..Len(lines) :
                     /\ ~IsBlank(lines[n])
                     /\ n = 1 \/ IsBlank(lines[n - 1])})
        last(n) == CHOOSE m \in n..Len(lines) :
                     /\ \A j \in n..m : ~IsBlank(lines[j])
                     /\ m = Len(lines) \/ IsBlank(lines[m + 1])
    IN  [k \in 1..Len(first) |-> SubSeq(lines, first[k], last(first[k]))]

\* The words of a paragraph, line after line.
WordsOf(paragraph) ==
    Flatten([n \in 1..Len(paragraph) |-> Fields(paragraph[n])])

\* The call rendered prose (no timestamps) from segments whose words all
\* fit in a line, so that no word is hard-split in the document.
ProseOfFittingWords ==
    /\ fop = "GenerateMarkdown"
    /\ fout.returned
    /\ ~fin.cfg.Timestamps
    /\ \A i \in 1..Len(fin.segs) :
          \A n \in 1..Len(Fields(fin.segs[i].Text)) :
              Len(Fields(fin.segs[i].Text)[n]) <= maxLineLength

TerminalPunctuation == {".", "?", "!"}

RECURSIVE FlushedEveryFifth(_, _, _, _, _)
\* The paragraphs, as sequences of words, of segments flushed by the rule:
\* after a segment whose text ends in terminal punctuation, after the fifth
\* segment since the previous flush (since counts them), and at the end.
FlushedEveryFifth(segs, i, since, words, done) ==
    IF i > Len(segs)
    THEN IF words = <<>> THEN done ELSE Append(done, words)
    ELSE LET w == words \o Fields(segs[i].Text)
         IN  IF Last(segs[i].Text) \in TerminalPunctuation \/ since + 1 = 5
             THEN FlushedEveryFifth(segs, i + 1, 0, <<>>,
                      IF w = <<>> THEN done ELSE Append(done, w))
             ELSE FlushedEveryFifth(segs, i + 1, since + 1, w, done)

\* C22: in prose mode the buffer is flushed into a paragraph after a
\* segment exactly when its text ends in ".", "?" or "!" or it is the fifth
\* segment since the previous flush, the count restarting at every flush:
\* the paragraphs of the document are those this rule gives.
C22_FlushRule ==
    ProseOfFittingWords =>
        LET pars == ParagraphsOf(TranscriptLines)
        IN  [k \in 1..Len(pars) |-> WordsOf(pars[k])]
                = FlushedEveryFifth(fin.segs, 1, 0, <<>>, <<>>)

\* ----------------------------------------------------------------- C23
\* The call rendered prose from at least one segment, and every segment's
\* text ends in terminal punctuation.
ProseOfSentences ==
    /\ fop = "GenerateMarkdown"
    /\ fout.returned
    /\ ~fin.cfg.Timestamps
    /\ Len(fin.segs) >= 1
    /\ \A i \in 1..Len(fin.segs) :
          Last(fin.segs[i].Text) \in TerminalPunctuation

\* The characters of a text that are not white space, in order.
Letters(text) == Flatten(Fields(text))

\* No two blank lines follow each other.
NoDoubleBlank(lines) ==
    \A n \in 1..(Len(lines) - 1) : ~(IsBlank(lines[n]) /\ IsBlank(lines[n + 1]))

\* C23: in prose mode, when each of the n segments ends in terminal
\* punctuation, the document has exactly n paragraphs, the k-th holding the
\* k-th segment's text, with exactly one blank line between consecutive
\* paragraphs and no line longer than maxLineLength.
C23_ParagraphPerSentence ==
    ProseOfSentences =>
        LET lines == TranscriptLines
            pars == ParagraphsOf(lines)
        IN  /\ Len(pars) = Len(fin.segs)
            /\ \A k \in 1..Len(pars) :
                  Flatten(WordsOf(pars[k])) = Letters(fin.segs[k].Text)
            /\ NoDoubleBlank(lines)
            /\ \A n \in 1..Len(lines) : Len(lines[n]) <= maxLineLength

\* ----------------------------------------------------------------- C24
\* The call rendered prose.
ProseCall ==
    /\ fop = "GenerateMarkdown"
    /\ fout.returned
    /\ ~fin.cfg.Timestamps

\* The lengths of the non-empty prefixes of Flatten(parts) that end with a
\* part.
RECURSIVE EndsOf(_, _)
EndsOf(parts, upto) ==
    IF upto = 0 THEN {}
    ELSE EndsOf(parts, upto - 1)
             \cup {Len(Flatten(SubSeq(parts, 1, upto)))}

\* C24: in prose mode the paragraphs of the document, read in order, hold
\* the segments' texts in order, nothing lost (the last buffer included)
\* and nothing twice, and no segment is divided between two paragraphs.
C24_EverySegmentOnce ==
    ProseCall =>
        LET pars == ParagraphsOf(TranscriptLines)
            written == [k \in 1..Len(pars) |-> Flatten(WordsOf(pars[k]))]
            given == [i \in 1..Len(fin.segs) |-> Letters(fin.segs[i].Text)]
        IN  /\ Flatten(written) = Flatten(given)
            /\ EndsOf(written, Len(written)) \subseteq EndsOf(given, Len(given))

\* A prose call whose last segment has no terminal punctuation and is left
\* in the buffer when the loop ends, after a paragraph of several
\* segments.
C24_Witness ==
    /\ ProseCall
    /\ Len(fin.segs) > 5
    /\ fin.segs[Len(fin.segs)].Text = <<"b">>
    /\ LET pars == ParagraphsOf(TranscriptLines)
       IN  /\ Len(pars) >= 2
           /\ Len(WordsOf(pars[1])) >= 2
           /\ WordsOf(pars[Len(pars)]) = <<(<<"b">>)>>
    /\ C24_EverySegmentOnce

\* ----------------------------------------------------------------- C25
\* The call rendered the segments with timestamps.
TimestampCall ==
    /\ fop = "GenerateMarkdown"
    /\ fout.returned
    /\ fin.cfg.Timestamps

\* The bold timestamp tag of a segment.
TagOf(seg) == <<"*", "*", "[">> \o seg.Timestamp \o <<"]", "*", "*">>

\* C25: in timestamped mode the document has one block per segment, in
\* segment order; a block begins with the segment's bold timestamp tag,
\* which is on no other line of the block, and holds the segment's text
\* after it; consecutive blocks are separated by exactly one blank line.
C25_BlockPerSegment ==
    TimestampCall =>
        LET lines == TranscriptLines
            blocks == ParagraphsOf(lines)
        IN  /\ Len(blocks) = Len(fin.segs)
            /\ \A k \in 1..Len(blocks) :
                  LET tag == TagOf(fin.segs[k])
                      words == WordsOf(blocks[k])
                  IN  /\ HasPrefix(blocks[k][1], tag)
                      /\ words[1] = tag
                      /\ \A n \in 2..Len(blocks[k]) :
                            ~Contains(blocks[k][n], tag)
                      /\ Flatten(Tail(words)) = Letters(fin.segs[k].Text)
            /\ NoDoubleBlank(lines)

\* A timestamped call with two segments, one of them wrapped over several
\* lines.
C25_Witness ==
    /\ TimestampCall
    /\ Len(fin.segs) = 2
    /\ LET blocks == ParagraphsOf(TranscriptLines)
       IN  /\ Len(blocks) = 2
           /\ \E k \in 1..2 :
                 /\ Len(blocks[k]) >= 2
                 /\ Len(WordsOf(blocks[k])) = 3

\* ----------------------------------------------------------------- C28
Digits == {"0", "1", "2", "3", "4", "5", "6", "7", "8", "9"}

\* The value between the quotes of the frontmatter line "uploaded:".
UploadedValue ==
    LET key == SubSeq(TplUploaded, 3, Len(TplUploaded))
        lines == DocLines(fout.value)
        n == CHOOSE n \in 1..Len(lines) : HasPrefix(lines[n], key)
    IN  SubSeq(lines[n], Len(key) + 1, Len(lines[n]) - 1)

\* C28: the upload date of the frontmatter is the metadata value rewritten
\* as YYYY-MM-DD when the value consists of exactly 8 digits, and the value
\* itself otherwise.
C28_UploadDate ==
    (fop = "GenerateMarkdown" /\ fout.returned) =>
        LET date == fin.meta.UploadDate
        IN  UploadedValue =
                IF Len(date) = 8 /\ \A i \in 1..8 : date[i] \in Digits
                THEN SubSeq(date, 1, 4) \o <<"-">> \o SubSeq(date, 5, 6)
                         \o <<"-">> \o SubSeq(date, 7, 8)
                ELSE date

\* ----------------------------------------------------------------- C29
\* The untruncated slug of a title: the maximal runs of letters and digits
\* of the lower-cased title, joined by single hyphens.
UntruncatedSlug(title) ==
    LET lower == ToLower(title)
    IN  Join(Fields([i \in 1..Len(lower) |->
                        IF lower[i] \in SlugAlnum THEN lower[i] ELSE " "]),
             <<"-">>)

\* The positions of the hyphens among the first 60 characters of a slug,
\* counted from 0 as the code counts them.
HyphensOfHead(slug) == {i \in 0..59 : i < Len(slug) /\ slug[i + 1] = "-"}

\* C29: slugify returns at most 60 characters, all lower-case letters,
\* digits or hyphens, without a hyphen at either end and without two
\* hyphens in a row. A slug of at most 60 characters is returned whole; a
\* longer one is cut before the last hyphen of its first 60 characters when
\* that hyphen's position (from 0) is greater than 40, and after exactly 60
\* characters otherwise.
C29_Slug ==
    (fop = "slugify" /\ fout.returned) =>
        LET slug == fout.value
            whole == UntruncatedSlug(fin.title)
            hyphens == HyphensOfHead(whole)
            lastHyphen == CHOOSE i \in hyphens : \A j \in hyphens : j <= i
        IN  /\ Len(slug) <= 60
            /\ \A i \in 1..Len(slug) : slug[i] \in SlugAlnum \cup {"-"}
            /\ slug # <<>> => slug[1] # "-" /\ slug[Len(slug)] # "-"
            /\ \A i \in 1..(Len(slug) - 1) :
                  ~(slug[i] = "-" /\ slug[i + 1] = "-")
            /\ slug = IF Len(whole) <= 60 THEN whole
                      ELSE IF hyphens # {} /\ lastHyphen > 40
                           THEN SubSeq(whole, 1, lastHyphen)
                           ELSE SubSeq(whole, 1, 60)

\* A slug of more than 60 characters was cut before a hyphen, to fewer
\* than 60 characters.
C29_Witness ==
    /\ fop = "slugify"
    /\ fout.returned
    /\ Len(UntruncatedSlug(fin.title)) > 60
    /\ Len(fout.value) \in 41..59
    /\ UntruncatedSlug(fin.title)[Len(fout.value) + 1] = "-"

\* ----------------------------------------------------------------- C30
\* The Format stage of the run has succeeded: GenerateMarkdown was called
\* and returned no error.
FormatSucceeded ==
    /\ \E k \in 1..Len(calls) : calls[k] = "format"
    /\ failed # "format"

\* C30 as stated: the output file is on disk only if the Format stage
\* succeeded.
C30_Original == fileWritten => FormatSucceeded

\* C30: the output file is on disk only if GenerateMarkdown has been
\* called, so a run that fails in metadata, download or transcribe leaves
\* no file; after a successful Format stage the file is on disk and stays
\* there, also when Validate reports warnings and up to the CompletedEvent.
C30_OutputFile ==
    /\ fileWritten => \E k \in 1..Len(calls) : calls[k] = "format"
    /\ failed \in {"metadata", "download", "transcribe"} => ~fileWritten
    /\ FormatSucceeded => fileWritten
    /\ \A k \in 1..Len(sent) : sent[k].type = "CompletedEvent" => fileWritten

\* A run whose Validate stage reported warnings has sent its
\* CompletedEvent, and the file is on disk.
C30_Witness ==
    /\ lintErr \notin {"unset", "nil"}
    /\ sent # <<>>
    /\ Last(sent).type = "CompletedEvent"
    /\ fileWritten

\* ----------------------------------------------------------------- C37
\* C37: every wrap function keeps the content: the output without the
\* markers the call added and without white space is the input without
\* white space.
C37_ContentPreserved ==
    (fop \in WrapOps /\ fout.returned) =>
        Flatten(PiecesFrom(1)) = Letters(WrappedText)

\* forceWrapLine flushed a line of short words and then hard-split a long
\* word of a quoted line.
C37_Witness ==
    /\ fop = "forceWrapLine"
    /\ fout.returned
    /\ fin.prefix = QuotePrefix
    /\ Len(Fields(fin.text)) >= 2
    /\ Len(Fields(fin.text)[1]) <= EffectiveWidth
    /\ Len(Fields(fin.text)[2]) > EffectiveWidth
    /\ Len(OutLines) >= 3
    /\ Flatten(PiecesFrom(1)) = Letters(WrappedText)

\* ----------------------------------------------------------------- C38
\* A bold tag holding a display timestamp in one pair of square brackets:
\* "**[", characters that are no brackets, "]**".
IsSingleBracketTag(word) ==
    /\ Len(word) > 6
    /\ HasPrefix(word, <<"*", "*", "[">>)
    /\ HasSuffix(word, <<"]", "*", "*">>)
    /\ \A i \in 4..(Len(word) - 3) : word[i] \notin {"[", "]"}

\* C38: in timestamped mode the block of a segment produced by Transcribe
\* begins with a bold tag that holds the display timestamp inside exactly
\* one pair of square brackets.
C38_SingleBrackets ==
    (TimestampCall /\ Len(fin.segs) >= 1) =>
        LET blocks == ParagraphsOf(TranscriptLines)
        IN  \A k \in 1..Len(blocks) :
                IsSingleBracketTag(WordsOf(blocks[k])[1])

\* ----------------------------------------------------------------- C32
\* The TranscriptEvents Run has sent, in order, as segments.
SentTranscript ==
    LET evs == SelectSeq(sent, LAMBDA e : e.type = "TranscriptEvent")
    IN  [k \in 1..Len(evs) |->
            [Text |-> evs[k].Text, Timestamp |-> evs[k].Timestamp]]

\* C32: the TranscriptEvents of a run, in order, are the segments of the
\* Transcribe stage, which Format and the word count consume: between two
\* callbacks and after the stage they are equal, inside a callback the
\* last segment's event is the one being sent; no segment has empty text;
\* the word count of the CompletedEvent is that of the events' texts.
C32_EventsAreSegments ==
    /\ IF pc = "t_cb1"
       THEN segments # <<>> /\ SentTranscript = Front(segments)
       ELSE SentTranscript = segments
    /\ \A k \in 1..Len(segments) : segments[k].Text # <<>>
    /\ \A k \in 1..Len(sent) :
          sent[k].type = "CompletedEvent" =>
              sent[k].Stats.WordCount = CountWords(SentTranscript)

\* A completed run in which whisper printed a line with empty text and a
\* line with text: one segment, one event.
C32_Witness ==
    /\ sent # <<>>
    /\ Last(sent).type = "CompletedEvent"
    /\ linesRead = 2
    /\ Len(segments) = 1
    /\ Len(SentTranscript) = 1

\* ----------------------------------------------------------------- C33
\* C33: once Pipeline.Cancel has been called (the context is done before
\* Run has returned), Run eventually returns, whether or not the consumer
\* goes on receiving.
C33_CancelReleasesRun == (ctxDone /\ ~RunReturned) ~> RunReturned

\* ================================================== tui: Model.Update
\* The messages of the program are records with a type; a tea.KeyMsg carries
\* msg.String() in key. "url" stands for the runes of a source the form
\* accepts.
KeyMsg(k) == [type |-> "KeyMsg", key |-> k]
Keys ==
    {"q", "ctrl+c", "enter", "tab", "left", "right", "y", "n", "esc", "url"}

\* The message the program hands to Update when a command returns nil.
NilMsg == [type |-> "nil"]

\* (*InputModel).Update.
InputUpdate(in, msg) ==
    IF msg.type # "KeyMsg" THEN in
    ELSE LET moved == IF msg.key = "tab"
                      THEN [in EXCEPT !.focusIndex = (in.focusIndex + 1) % 5]
                      ELSE in
             entered == IF msg.key = "enter" /\ in.focusIndex = 4
                           /\ in.urlValid
                        THEN [moved EXCEPT !.submitted = TRUE]
                        ELSE moved
         IN  IF in.focusIndex = 1 /\ msg.key = "url"
             THEN [entered EXCEPT !.urlValid = TRUE]
             ELSE entered

\* (*InputModel).Reset.
InputReset == [focusIndex |-> 0, urlValid |-> FALSE, submitted |-> FALSE]

\* (*InputModel).ClearSubmitted.
ClearSubmitted(in) == [in EXCEPT !.submitted = FALSE]

\* (*DownloadModel).SetModel.
SetModel(d) ==
    [d EXCEPT !.state = "DownloadStatePrompt", !.focusedButton = 0,
              !.confirmed = FALSE, !.cancelled = FALSE]

\* (*DownloadModel).Update; the root model hands it the screens messages
\* DownloadProgressMsg, DownloadCompleteMsg and DownloadErrorMsg.
DownloadUpdate(d, msg) ==
    CASE msg.type = "KeyMsg" /\ d.state = "DownloadStatePrompt" ->
            CASE msg.key = "left" -> [d EXCEPT !.focusedButton = 0]
              [] msg.key = "right" -> [d EXCEPT !.focusedButton = 1]
              [] msg.key = "y" -> [d EXCEPT !.confirmed = TRUE]
              [] msg.key \in {"n", "q", "esc"} -> [d EXCEPT !.cancelled = TRUE]
              [] msg.key = "enter" ->
                    IF d.focusedButton = 0
                    THEN [d EXCEPT !.confirmed = TRUE]
                    ELSE [d EXCEPT !.cancelled = TRUE]
              [] OTHER -> d
      [] msg.type = "KeyMsg" /\ d.state = "DownloadStateError" ->
            IF msg.key \in {"enter", "q", "esc"}
            THEN [d EXCEPT !.cancelled = TRUE]
            ELSE d
      [] msg.type = "DownloadProgressMsg" ->
            [d EXCEPT !.state = "DownloadStateDownloading"]
      [] msg.type = "DownloadCompleteMsg" ->
            [d EXCEPT !.state = "DownloadStateComplete"]
      [] msg.type = "DownloadErrorMsg" ->
            [d EXCEPT !.state = "DownloadStateError"]
      [] OTHER -> d

\* (*DownloadModel).Confirmed: the value returned and the model it leaves.
Confirmed(d) ==
    IF d.confirmed
    THEN [ok |-> TRUE,
          d |-> [d EXCEPT !.confirmed = FALSE,
                          !.state = "DownloadStateDownloading"]]
    ELSE [ok |-> FALSE, d |-> d]

\* (*DownloadModel).Cancelled: the value returned and the model it leaves.
Cancelled(d) ==
    IF d.cancelled
    THEN [ok |-> TRUE, d |-> [d EXCEPT !.cancelled = FALSE]]
    ELSE [ok |-> FALSE, d |-> d]

\* (*DownloadModel).Reset.
DownloadReset == NewDownloadModel

\* The index of the step with the given Key, 0 if there is none.
StepIndex(key) ==
    IF \E i \in 1..Len(StepKeys) : StepKeys[i] = key
    THEN CHOOSE i \in 1..Len(StepKeys) : StepKeys[i] = key
    ELSE 0

\* (*ProgressModel).updateStepStatus; prog is in hundredths.
updateStepStatus(p, key, prog, message) ==
    IF StepIndex(key) = 0 THEN p
    ELSE [p EXCEPT !.steps[StepIndex(key)] =
              IF prog >= 100 THEN "StepCompleted" ELSE "StepInProgress"]

\* (*ProgressModel).setStepError.
setStepError(p, key) ==
    IF StepIndex(key) = 0 THEN p
    ELSE [p EXCEPT !.steps[StepIndex(key)] = "StepError"]

\* (*ProgressModel).Update for the screens messages ProgressMsg and ErrorMsg
\* the root model hands it; every other message leaves the steps alone.
ProgressUpdate(p, msg) ==
    CASE msg.type = "ProgressMsg" ->
            updateStepStatus(p, msg.Step, msg.Progress, msg.Message)
      [] msg.type = "ErrorMsg" ->
            setStepError([p EXCEPT !.err = TRUE], msg.Step)
      [] OTHER -> p

\* (*ProgressModel).Reset.
ProgressReset == NewProgressModel

\* (*PreviewModel).Update: the model it leaves and what the root model
\* reads from it next (StartNew, OpenEdit, the tea.Quit command).
PreviewUpdate(v, msg) ==
    LET same == [v |-> v, startNew |-> FALSE, openEdit |-> FALSE,
                 quit |-> FALSE]
    IN  IF msg.type # "KeyMsg" THEN same
        ELSE CASE msg.key = "left" ->
                    [same EXCEPT !.v.focusedButton =
                        IF v.focusedButton > 0 THEN v.focusedButton - 1 ELSE 0]
               [] msg.key = "right" ->
                    [same EXCEPT !.v.focusedButton =
                        IF v.focusedButton < 2 THEN v.focusedButton + 1 ELSE 2]
               [] msg.key = "enter" ->
                    CASE v.focusedButton = 0 -> [same EXCEPT !.startNew = TRUE]
                      [] v.focusedButton = 1 -> [same EXCEPT !.openEdit = TRUE]
                      [] OTHER -> [same EXCEPT !.quit = TRUE]
               [] msg.key = "n" -> [same EXCEPT !.startNew = TRUE]
               [] OTHER -> same

\* (*PreviewModel).Reset.
PreviewReset == NewPreviewModel

\* The guard of the "q" case of Update: the key quits the program.
QuitAllowed(m) ==
    /\ ~m.pipelineActive
    /\ m.screen # "ProgressScreen"
    /\ m.screen # "ModelDownloadScreen"

\* The first switch of Update, on the type of the message: the model it
\* leaves and the commands it appends ("RunPipeline" is the one kept here;
\* spinner, blink and frame commands change nothing that is modelled).
MsgSwitch(m, msg) ==
    CASE msg.type = "ModelMissingMsg" ->
            [m |-> [m EXCEPT !.screen = "ModelDownloadScreen",
                             !.download = SetModel(m.download)],
             cmds |-> <<>>]
      [] msg.type = "ModelDownloadProgressMsg" ->
            [m |-> [m EXCEPT !.download =
                        DownloadUpdate(m.download,
                                       [type |-> "DownloadProgressMsg"])],
             cmds |-> <<>>]
      [] msg.type = "ModelDownloadCompleteMsg" ->
            [m |-> [m EXCEPT !.download =
                        DownloadUpdate(m.download,
                                       [type |-> "DownloadCompleteMsg"])],
             cmds |-> IF m.pendingConfig THEN <<"RunPipeline">> ELSE <<>>]
      [] msg.type = "ModelDownloadErrorMsg" ->
            [m |-> [m EXCEPT !.download =
                        DownloadUpdate(m.download,
                                       [type |-> "DownloadErrorMsg"])],
             cmds |-> <<>>]
      [] msg.type = "PipelineStartedMsg" ->
            [m |-> [m EXCEPT !.screen = "ProgressScreen",
                             !.pipelineActive = TRUE],
             cmds |-> <<>>]
      [] msg.type = "PipelineProgressMsg" ->
            [m |-> [m EXCEPT !.progress =
                        ProgressUpdate(m.progress,
                                       [type |-> "ProgressMsg",
                                        Step |-> msg.Step,
                                        Progress |-> msg.Progress,
                                        Message |-> msg.Message])],
             cmds |-> <<>>]
      [] msg.type = "PipelineCompletedMsg" ->
            [m |-> [m EXCEPT !.screen = "PreviewScreen",
                             !.pipelineActive = FALSE,
                             !.pendingConfig = FALSE,
                             !.preview.hasResult = TRUE],
             cmds |-> <<>>]
      [] msg.type = "PipelineErrorMsg" ->
            [m |-> [m EXCEPT !.pipelineActive = FALSE,
                             !.progress =
                        ProgressUpdate(m.progress,
                                       [type |-> "ErrorMsg",
                                        Step |-> msg.Step])],
             cmds |-> <<>>]
      [] OTHER -> [m |-> m, cmds |-> <<>>]

\* Variant of CancelDownload: the pending configuration is kept.
CancelDownload_KeepPending(m) ==
    [m EXCEPT !.screen = "InputScreen",
              !.download = DownloadReset,
              !.input = ClearSubmitted(m.input)]

\* The branch of Update taken when download.Cancelled() is true.
CancelDownload(m) ==
    [m EXCEPT !.screen = "InputScreen",
              !.pendingConfig = FALSE,
              !.download = DownloadReset,
              !.input = ClearSubmitted(m.input)]

\* The case InputScreen of the second switch of Update.
InputScreenCase(m, msg, cmds) ==
    LET in == InputUpdate(m.input, msg)
    IN  IF in.submitted
        THEN [m |-> [m EXCEPT !.input = ClearSubmitted(in),
                              !.pendingConfig = TRUE],
              cmds |-> Append(cmds, "CheckModel"), returned |-> FALSE]
        ELSE [m |-> [m EXCEPT !.input = in], cmds |-> cmds,
              returned |-> FALSE]

\* The case ModelDownloadScreen of the second switch of Update. The
\* cancelled branch returns at once, with the input screen's Init alone.
ModelDownloadScreenCase(m, msg, cmds) ==
    LET d == DownloadUpdate(m.download, msg)
        cancelled == Cancelled(d)
        confirmed == Confirmed(cancelled.d)
    IN  IF cancelled.ok
        THEN [m |-> CancelDownload(m), cmds |-> <<>>,
              returned |-> TRUE]
        ELSE [m |-> [m EXCEPT !.download = confirmed.d],
              cmds |-> IF confirmed.ok /\ m.pendingConfig
                       THEN Append(cmds, "DownloadModel")
                       ELSE cmds,
              returned |-> FALSE]

\* The case PreviewScreen of the second switch of Update.
PreviewScreenCase(m, msg, cmds) ==
    LET r == PreviewUpdate(m.preview, msg)
        quitCmds == IF r.quit THEN Append(cmds, "Quit") ELSE cmds
    IN  IF r.startNew
        THEN [m |-> [m EXCEPT !.screen = "InputScreen",
                              !.input = InputReset,
                              !.progress = ProgressReset,
                              !.preview = PreviewReset,
                              !.download = DownloadReset],
              cmds |-> quitCmds, returned |-> FALSE]
        ELSE [m |-> [m EXCEPT !.preview = r.v], cmds |-> quitCmds,
              returned |-> FALSE]

\* The second switch of Update, on the screen the first switch left.
ScreenSwitch(m, msg, cmds) ==
    CASE m.screen = "InputScreen" -> InputScreenCase(m, msg, cmds)
      [] m.screen = "ModelDownloadScreen" ->
            ModelDownloadScreenCase(m, msg, cmds)
      [] m.screen = "ProgressScreen" ->
            [m |-> [m EXCEPT !.progress = ProgressUpdate(m.progress, msg)],
             cmds |-> cmds, returned |-> FALSE]
      [] OTHER -> PreviewScreenCase(m, msg, cmds)

\* The last statement of Update: a nil message starts the pending run.
RunOnNil(m, msg, cmds) ==
    IF msg.type = "nil" /\ m.pendingConfig /\ m.screen = "InputScreen"
    THEN Append(cmds, "RunPipeline")
    ELSE cmds

\* Model.Update: the model it returns and the commands it returns, in
\* the order it appended them; cancelled: it returned from the branch of
\* download.Cancelled().
Update(m, msg) ==
    IF /\ msg.type = "KeyMsg"
       /\ \/ msg.key = "ctrl+c"
          \/ msg.key = "q" /\ QuitAllowed(m)
    THEN [m |-> m, cmds |-> <<"Quit">>, cancelled |-> FALSE]
    ELSE LET first == MsgSwitch(m, msg)
             second == ScreenSwitch(first.m, msg, first.cmds)
         IN  IF second.returned
             THEN [m |-> second.m, cmds |-> second.cmds, cancelled |-> TRUE]
             ELSE [m |-> second.m,
                   cmds |-> RunOnNil(second.m, msg, second.cmds),
                   cancelled |-> FALSE]

\* ------------------------------------------------- tui: the running program
\* Most form submissions of one session.
MaxSubmissions == 2
\* The capacity of the channel RunPipeline makes.
EventsCap == 100

\* A command is among those Update returned.
Has(cmds, c) == \E i \in DOMAIN cmds : cmds[i] = c
Count(b) == IF b THEN 1 ELSE 0

\* The messages that end a run.
TerminalMsgs == {"PipelineCompletedMsg", "PipelineErrorMsg"}

\* What the collaborators of one run do: failed is the stage whose
\* collaborator returns an error ("none" if none does), pcts the fractions
\* Download hands to its callback, in hundredths, chunks the Chunks
\* Transcribe hands to its callback, warn whether LintMarkdown returns an
\* error.
UsualChunk ==
    [Text |-> <<"a", " ", "b">>, Timestamp |-> <<"[", "01", ":", "05", "]">>,
     Progress |-> 1]
Runs ==
    [failed : {"none", "metadata", "download"},
     pcts : {<<100, 50>>},
     chunks : {<<UsualChunk>>},
     warn : BOOLEAN]

\* The error each collaborator returns when it fails.
StageError(stage) ==
    CASE stage = "metadata" -> "yt-dlp failed"
      [] stage = "download" -> "yt-dlp failed"
      [] stage = "transcribe" -> "whisper failed"
      [] OTHER -> "write file"

\* The two events of the onChunk callback of Run, for every chunk.
RECURSIVE ChunkEvents(_)
ChunkEvents(chunks) ==
    IF chunks = <<>> THEN <<>>
    ELSE <<TranscriptEvent(Head(chunks).Text, Head(chunks).Timestamp),
           ProgressEvent("transcribe", Head(chunks).Progress,
                         "Transcribing...")>>
         \o ChunkEvents(Tail(chunks))

\* Pipeline.Run as a function of what its collaborators do: the events it
\* sends, in order.
RunEvents(run) ==
    LET metadata ==
            <<ProgressEvent("metadata", 0, "Fetching video info...")>>
        download ==
            <<MetadataEvent(TheMeta), ProgressEvent("metadata", 100, "Done"),
              ProgressEvent("download", 0, "Starting download...")>>
            \o [i \in 1..Len(run.pcts) |->
                    ProgressEvent("download", run.pcts[i], "Downloading...")]
        transcribe ==
            <<ProgressEvent("download", 100, "Done"),
              ProgressEvent("transcribe", 0, "Starting transcription...")>>
            \o ChunkEvents(run.chunks)
        format ==
            <<ProgressEvent("transcribe", 100, "Done"),
              ProgressEvent("format", 0, "Generating markdown...")>>
        validate ==
            <<ProgressEvent("format", 100, "Done"),
              ProgressEvent("validate", 0, "Checking markdown..."),
              ProgressEvent("validate", 100,
                            IF run.warn THEN "Warnings found" ELSE "Passed"),
              CompletedEvent("out.md",
                  Stats(TheMeta.Duration, CountWords(run.chunks), TheModel))>>
        failure == <<ErrorEvent(run.failed, StageError(run.failed))>>
    IN  CASE run.failed = "metadata" -> metadata \o failure
          [] run.failed = "download" -> metadata \o download \o failure
          [] run.failed = "transcribe" ->
                metadata \o download \o transcribe \o failure
          [] run.failed = "format" ->
                metadata \o download \o transcribe \o format \o failure
          [] OTHER ->
                metadata \o download \o transcribe \o format \o validate

\* The command RunPipeline returns, with the goroutine of Run taken to its
\* end at once: none of its sends blocks while the run has no more events
\* than the channel holds, and the program sees the run through the
\* receiving goroutine alone.
StartRun(run) ==
    /\ Len(RunEvents(run)) <= EventsCap
    /\ events' = RunEvents(run)
    /\ sent' = RunEvents(run)
    /\ pc' = "closed"
    /\ closed' = TRUE
    /\ failed' = run.failed
    /\ cpc' = "recv"
    /\ cur' = NoEvent
    /\ msgs' = <<>>
    /\ received' = <<>>
    /\ UNCHANGED <<ctxDone, procVars, dataVars, err, calls, cancelAt>>

\* The event loop hands msg to Update and runs the commands it returns.
\* due names the command whose message this is ("none" for a key or a
\* message of program.Send). The goroutines of a run issued while another
\* is in flight are not followed: the model keeps those of the earlier one.
Handle(msg, due) ==
    LET r == Update(tuiModel, msg)
        runs == Has(r.cmds, "RunPipeline")
        submits == Has(r.cmds, "CheckModel")
        downloads == Has(r.cmds, "DownloadModel")
        ended == msg.type \in TerminalMsgs /\ tuiHist.inFlight > 0
    IN  /\ ~tuiHist.quit
        /\ submits => tuiHist.submissions < MaxSubmissions
        /\ tuiModel' = r.m
        /\ tuiCmds' =
              [check |-> tuiCmds.check + Count(submits)
                           - Count(due = "CheckModel"),
               started |-> tuiCmds.started + Count(runs)
                             - Count(due = "RunPipeline"),
               download |-> tuiCmds.download + Count(downloads)
                              - Count(due = "DownloadModel")]
        /\ tuiHist' =
              [running |-> tuiHist.running \/ runs,
               inFlight |-> tuiHist.inFlight + Count(runs) - Count(ended),
               submissions |-> tuiHist.submissions + Count(submits),
               sinceCancel |-> r.cancelled
                               \/ (tuiHist.sinceCancel /\ ~submits),
               quit |-> Has(r.cmds, "Quit")]
        /\ IF runs /\ tuiHist.inFlight = 0
           THEN \E run \in Runs : StartRun(run)
           ELSE IF due = "Send"
           THEN /\ cur' = Head(events)
                /\ events' = Tail(events)
                /\ received' = Append(received, Head(events))
                /\ msgs' = Append(msgs, msg)
                /\ UNCHANGED <<pc, ctxDone, procVars, dataVars, err, sent,
                               closed, cpc, histVars>>
           ELSE UNCHANGED pipelineVars
        /\ UNCHANGED fmtVars

\* The terminal delivers a key.
KeyPress == \E k \in Keys : Handle(KeyMsg(k), "none")

\* tui.CheckModel returns: nil when the model file exists, ModelMissingMsg
\* when it does not.
CheckModelReturn ==
    /\ tuiCmds.check > 0
    /\ \E exists \in BOOLEAN :
         Handle(IF exists THEN NilMsg ELSE [type |-> "ModelMissingMsg"],
                "CheckModel")

\* The command RunPipeline returns has returned PipelineStartedMsg.
PipelineStarted ==
    /\ tuiCmds.started > 0
    /\ Handle([type |-> "PipelineStartedMsg"], "RunPipeline")

\* tui.DownloadModel reports progress through program.Send.
ModelDownloadProgress ==
    /\ tuiCmds.download > 0
    /\ Handle([type |-> "ModelDownloadProgressMsg"], "none")

\* tui.DownloadModel ends: the model file is there, or the download failed.
ModelDownloadReturn ==
    /\ tuiCmds.download > 0
    /\ \E ok \in BOOLEAN :
         Handle([type |-> IF ok THEN "ModelDownloadCompleteMsg"
                          ELSE "ModelDownloadErrorMsg"],
                "DownloadModel")

\* One iteration of the range loop of RunPipeline with the program behind
\* program.Send: the goroutine receives an event, and the event loop takes
\* its message and hands it to Update.
Deliver ==
    /\ tuiHist.running
    /\ events # <<>>
    /\ Handle(ToMsg(Head(events)), "Send")

TuiNext ==
    \/ KeyPress
    \/ CheckModelReturn
    \/ PipelineStarted
    \/ ModelDownloadProgress
    \/ ModelDownloadReturn
    \/ Deliver

TuiSpec == Init /\ [][TuiNext]_vars

\* ================================================== claims about the tui
\* A run is processing: it has been issued and the message that ends it
\* has not been handled.
Processing == tuiHist.inFlight > 0

\* What Update returns for the key "q" in the current state.
PressQ == Update(tuiModel, KeyMsg("q"))

\* C31: while the program lives, the key "q" quits it exactly when no run
\* is processing: Update returns tea.Quit for "q" in every state without a
\* run in flight, a run that ended with an error included, and in no state
\* with one.
C31_QuitWhenIdle ==
    ~tuiHist.quit => (Has(PressQ.cmds, "Quit") <=> ~Processing)

\* C34: whenever no issued run is still waiting for its terminal message
\* to be handled (none was issued yet, or PipelineCompletedMsg or
\* PipelineErrorMsg has been handled and no run was issued since),
\* pipelineActive is false, in whatever order the event loop took the
\* run's PipelineStartedMsg and the messages of program.Send.
C34_InactiveAfterRun == ~Processing => ~tuiModel.pipelineActive

\* C35: Update returns a RunPipeline command only when no run is in
\* flight, that is, when every run issued before has had its terminal
\* message handled.
C35_OneRunInFlight ==
    [][tuiCmds'.started > tuiCmds.started => ~Processing]_vars

\* The messages that end a stage: fraction 1 with one of the three final
\* texts.
FinalTexts == {"Done", "Passed", "Warnings found"}
FinalHandled(i) ==
    \E j \in 1..Len(msgs) :
        /\ msgs[j].type = "PipelineProgressMsg"
        /\ msgs[j].Step = StepKeys[i]
        /\ msgs[j].Progress = 100
        /\ msgs[j].Message \in FinalTexts

\* A message of the run in flight has brought the fraction 1 for the stage.
FullHandled(i) ==
    \E j \in 1..Len(msgs) :
        /\ msgs[j].type = "PipelineProgressMsg"
        /\ msgs[j].Step = StepKeys[i]
        /\ msgs[j].Progress >= 100

\* C36: a step of the progress screen becomes StepCompleted only when the
\* final progress message of its stage is among the messages of the run
\* handed to the program so far, and a step a message of the run has
\* completed does not go from StepCompleted back to StepInProgress.
C36_CompletedIsFinal ==
    [][\A i \in 1..Len(StepKeys) :
          /\ ( /\ tuiModel.progress.steps[i] # "StepCompleted"
               /\ tuiModel'.progress.steps[i] = "StepCompleted" )
             => FinalHandled(i)'
          /\ ~ /\ FullHandled(i)
               /\ tuiModel.progress.steps[i] = "StepCompleted"
               /\ tuiModel'.progress.steps[i] = "StepInProgress"]_vars

\* The keys that cancel the model-download screen in the state of m: at
\* the prompt n, q, esc, and enter with the button "No" focused; in the
\* error state enter, q and esc.
CancelKeys(m) ==
    IF m.screen # "ModelDownloadScreen" THEN {}
    ELSE CASE m.download.state = "DownloadStatePrompt" ->
                {"n", "q", "esc"}
                    \cup (IF m.download.focusedButton = 1
                          THEN {"enter"} ELSE {})
           [] m.download.state = "DownloadStateError" -> {"enter", "q", "esc"}
           [] OTHER -> {}

====
